---- MODULE Spec2Model ----
(***************************************************************************)
(* Verification model of the Primordia SDK (python): the netting engine    *)
(* (primordia_sdk/netting.py), the default/bankruptcy primitive            *)
(* (primordia_sdk/dbp.py), the canonical codec (primordia_sdk/canonical.py)*)
(* and the signed records with their verifiers (msr.py, fc.py, mbs.py,     *)
(* amr.py, netting.py, dbp.py).                                            *)
(*                                                                         *)
(* Strings are sequences of code points, compared as Python compares str   *)
(* (lexicographically by code point).  hash_bytes (blake3) is modelled as  *)
(* an injective function of the canonical bytes.                           *)
(***************************************************************************)
EXTENDS Integers, Sequences, FiniteSets, TLC

VARIABLES receipts, submitted, net_pc, netting,
          creditors, assets, dist_pc, dist_input, distributions,
          dbp_pc, dbp, resolution,
          canon_pc, canon_value, canon_result,
          rec_pc, rec_kind, rec, rec_made, rec_out,
          acr, acr_log, acr_out,
          hook, hook_log, hook_out,
          life_state, life_dbp, life_out, life_failed

net_vars == <<receipts, submitted, net_pc, netting>>
in_vars == <<creditors, assets>>
dist_vars == <<dist_pc, dist_input, distributions>>
dbp_vars == <<dbp_pc, dbp, resolution>>
canon_vars == <<canon_pc, canon_value, canon_result>>
rec_vars == <<rec_pc, rec_kind, rec, rec_made, rec_out>>
acr_vars == <<acr, acr_log, acr_out>>
hook_vars == <<hook, hook_log, hook_out>>
life_vars == <<life_state, life_dbp, life_out, life_failed>>
more_vars == <<acr_vars, hook_vars, life_vars>>
ext_vars == <<canon_vars, rec_vars, more_vars>>
vars == <<net_vars, in_vars, dist_vars, dbp_vars, ext_vars>>

(***************************************************************************)
(* Bounds of the model.                                                    *)
(***************************************************************************)
MaxReceipts == 3
MaxCreditors == 2
MaxAssets == 2
MaxDepth == 2
MaxMsrs == 3
MaxCalls == 3

\* prices of the receipts fed to the netting engine (USD micros)
Prices == {0, 1, 2}

\* agent ids "a", "ab" and "b": ids of different lengths, one a prefix of another
AgentIds == { <<97>>, <<97, 98>> , <<98>> }

\* creditor ids "x" and "y", amounts owed and priorities of the creditors
CreditorIds == { <<120>>, <<121>> }
Amounts == {0, 7, 15}
Priorities == {1, 2}

\* asset type "c" and the asset values; the total assets compute_distributions
\* is called with
AssetTypes == { <<99>>, <<100>> }
AssetValues == {5, 22}
TotalAssets == {0, 5, 22, 27}

\* the value of the clock, int(time.time() * 1000)
Clock == {1}

(***************************************************************************)
(* Python built-ins used by the code.                                      *)
(***************************************************************************)
\* str.__lt__ : lexicographic comparison by code point
SeqLT(s, t) ==
    \E i \in 1..Len(t) :
        /\ \A j \in 1..(i - 1) : j <= Len(s) /\ s[j] = t[j]
        /\ (i = Len(s) + 1 \/ (i <= Len(s) /\ s[i] < t[i]))

\* insertion of one <<key, item>> pair behind the pairs whose key is not larger
RECURSIVE insert_pair(_, _)
insert_pair(pairs, kx) ==
    IF pairs = <<>> THEN <<kx>>
    ELSE IF SeqLT(kx[1], Head(pairs)[1]) THEN <<kx>> \o pairs
         ELSE <<Head(pairs)>> \o insert_pair(Tail(pairs), kx)

RECURSIVE sort_pairs(_)
sort_pairs(pairs) ==
    IF pairs = <<>> THEN <<>>
    ELSE insert_pair(sort_pairs(SubSeq(pairs, 1, Len(pairs) - 1)), pairs[Len(pairs)])

\* sorted(seq, key=...) : stable, ascending by keys[i] (the key of seq[i])
sorted_by(seq, keys) ==
    LET srt == sort_pairs([i \in 1..Len(seq) |-> <<keys[i], seq[i]>>])
    IN  [p \in 1..Len(seq) |-> srt[p][2]]

\* sorted(list of str)
sorted_strs(seq) == sorted_by(seq, seq)

\* sorted(set of str) and sorted(dict.keys()): the elements are distinct
RECURSIVE sorted_set(_)
sorted_set(S) ==
    IF S = {} THEN <<>>
    ELSE LET x == CHOOSE m \in S : \A y \in S : ~SeqLT(y, m)
         IN  <<x>> \o sorted_set(S \ {x})

\* dict.get(k, 0)
dict_get(d, k) == IF k \in DOMAIN d THEN d[k] ELSE 0

\* d[k] = v
dict_set(d, k, v) == [x \in DOMAIN d \cup {k} |-> IF x = k THEN v ELSE d[x]]

\* ord("|")
SEP == 124

\* f"{a}|{b}" and "|".join([a, b])
pair_join(a, b) == a \o <<SEP>> \o b

\* key.split("|") for a key holding one "|"
split(key) ==
    LET i == CHOOSE k \in 1..Len(key) :
                 key[k] = SEP /\ \A j \in 1..(k - 1) : key[j] # SEP
    IN  <<SubSeq(key, 1, i - 1), SubSeq(key, i + 1, Len(key))>>

RECURSIVE SumSeq(_)
SumSeq(s) == IF s = <<>> THEN 0 ELSE Head(s) + SumSeq(Tail(s))

(***************************************************************************)
(* Python float arithmetic (IEEE-754 binary64, round to nearest, ties to   *)
(* even) on the values the code computes with: quotients of non-negative   *)
(* ints below 2^14 and their products with ints below 2^15.  The 53 bits   *)
(* of a significand are held as a leading part of 5 bits (lead, 16..31)    *)
(* and three limbs of 16 bits (c1, c2, c3); e is the exponent of the last  *)
(* bit, so the value is (lead*2^48 + c1*2^32 + c2*2^16 + c3) * 2^e.        *)
(***************************************************************************)
\* sys.float_info.mant_dig; the width and the radix of a limb
MantDig == 53
LimbBits == (MantDig - 5) \div 3
Limb == 2^LimbBits

ZeroFloat == [lead |-> 0, c1 |-> 0, c2 |-> 0, c3 |-> 0, e |-> 0]

\* the float of the significand (lead, c1, c2, c3) and exponent e, rounded
\* up by one unit in the last place when up
float_round(lead, c1, c2, c3, e, up) ==
    IF ~up THEN [lead |-> lead, c1 |-> c1, c2 |-> c2, c3 |-> c3, e |-> e]
    ELSE IF c3 + 1 < Limb
         THEN [lead |-> lead, c1 |-> c1, c2 |-> c2, c3 |-> c3 + 1, e |-> e]
    ELSE IF c2 + 1 < Limb
         THEN [lead |-> lead, c1 |-> c1, c2 |-> c2 + 1, c3 |-> 0, e |-> e]
    ELSE IF c1 + 1 < Limb
         THEN [lead |-> lead, c1 |-> c1 + 1, c2 |-> 0, c3 |-> 0, e |-> e]
    ELSE IF lead + 1 < 32
         THEN [lead |-> lead + 1, c1 |-> 0, c2 |-> 0, c3 |-> 0, e |-> e]
    ELSE [lead |-> 16, c1 |-> 0, c2 |-> 0, c3 |-> 0, e |-> e + 1]

\* the k with den * 2^k <= num < den * 2^(k+1), for num >= den
RECURSIVE quot_exp(_, _)
quot_exp(num, den) == IF num < 2 * den THEN 0 ELSE 1 + quot_exp(num, 2 * den)

\* int.__truediv__: a / b, correctly rounded, for a >= 0 and b > 0
float_div(a, b) ==
    IF a = 0 THEN ZeroFloat
    ELSE LET up == IF a >= b THEN 0 ELSE 1 + quot_exp(b - 1, a)
             num == a * 2^up
             down == quot_exp(num, b)
             den == b * 2^down
             lead == (num * 16) \div den
             r0 == (num * 16) % den
             c1 == (r0 * Limb) \div den
             r1 == (r0 * Limb) % den
             c2 == (r1 * Limb) \div den
             r2 == (r1 * Limb) % den
             c3 == (r2 * Limb) \div den
             r3 == (r2 * Limb) % den
             guard == 2 * r3 >= den
             rest == IF guard THEN 2 * r3 - den ELSE 2 * r3
         IN  float_round(lead, c1, c2, c3, (down - up) - (MantDig - 1),
                         guard /\ (rest > 0 \/ c3 % 2 = 1))

\* float.__mul__ of a float and the float of an int t >= 0
float_mul_int(f, t) ==
    IF f = ZeroFloat \/ t = 0 THEN ZeroFloat
    ELSE LET p3 == f.c3 * t
             p2 == f.c2 * t + p3 \div Limb
             p1 == f.c1 * t + p2 \div Limb
             top == f.lead * t + p1 \div Limb
             d1 == p1 % Limb
             d2 == p2 % Limb
             d3 == p3 % Limb
             \* the bits of the exact product beyond MantDig
             s == CHOOSE n \in 0..LimbBits : 16 * 2^n <= top /\ top < 32 * 2^n
             lo == 2^s
             hi == 2^(LimbBits - s)
             dropped == d3 % lo
             guard == s > 0 /\ dropped \div 2^(s - 1) = 1
             rest == IF s > 0 THEN dropped % 2^(s - 1) ELSE 0
             n3 == (d2 % lo) * hi + d3 \div lo
         IN  float_round(top \div lo,
                         (top % lo) * hi + d1 \div lo,
                         (d1 % lo) * hi + d2 \div lo,
                         n3, f.e + s,
                         guard /\ (rest > 0 \/ n3 % 2 = 1))

\* int(f): truncation
float_trunc(f) ==
    LET k == 0 - f.e
    IN  IF f = ZeroFloat \/ k >= MantDig THEN 0
        ELSE IF k >= 3 * LimbBits THEN f.lead \div 2^(k - 3 * LimbBits)
        ELSE IF k >= 2 * LimbBits
             THEN f.lead * 2^(3 * LimbBits - k) + f.c1 \div 2^(k - 2 * LimbBits)
        ELSE IF k >= LimbBits
             THEN f.lead * 2^(3 * LimbBits - k) + f.c1 * 2^(2 * LimbBits - k)
                      + f.c2 \div 2^(k - LimbBits)
        ELSE IF k >= 0
             THEN f.lead * 2^(3 * LimbBits - k) + f.c1 * 2^(2 * LimbBits - k)
                      + f.c2 * 2^(LimbBits - k) + f.c3 \div 2^k
        ELSE (f.lead * 2^(3 * LimbBits) + f.c1 * 2^(2 * LimbBits)
                      + f.c2 * 2^LimbBits + f.c3) * 2^(0 - k)

\* int((a / b) * t)
int_ratio_times(a, b, t) == float_trunc(float_mul_int(float_div(a, b), t))

(***************************************************************************)
(* msr.py                                                                  *)
(***************************************************************************)
MSR == [payer_agent_id : AgentIds, payee_agent_id : AgentIds,
        price_usd_micros : Prices]

\* get_msr_hash: the digest of the canonical bytes of the receipt without
\* its signature; injective in the content, a string that sorts like one
get_msr_hash(r) ==
    r.payer_agent_id \o <<0>> \o r.payee_agent_id \o <<0, r.price_usd_micros>>

(***************************************************************************)
(* netting.py : net_receipts                                               *)
(***************************************************************************)
\* a variant of receipt_hashes_of: the hashes are returned in input order
receipt_hashes_unsorted(rs) == [i \in 1..Len(rs) |-> get_msr_hash(rs[i])]

\* 1. receipt_hashes = sorted([get_msr_hash(r) for r in receipts])
receipt_hashes_of(rs) == sorted_strs([i \in 1..Len(rs) |-> get_msr_hash(rs[i])])

\*    sorted_receipts = sorted(receipts, key=lambda r: get_msr_hash(r))
sorted_receipts_of(rs) == sorted_by(rs, [i \in 1..Len(rs) |-> get_msr_hash(rs[i])])

\* 2. the balance matrix, keyed "payer|payee": one turn of the loop
add_to_balances(balances, receipt) ==
    LET key == pair_join(receipt.payer_agent_id, receipt.payee_agent_id)
    IN  dict_set(balances, key, dict_get(balances, key) + receipt.price_usd_micros)

\*    for receipt in sorted_receipts: ...
build_balances(rs, balances) ==
    LET after[i \in 0..Len(rs)] ==
            IF i = 0 THEN balances ELSE add_to_balances(after[i - 1], rs[i])
    IN  after[Len(rs)]

total_volume_of(rs) == SumSeq([i \in 1..Len(rs) |-> rs[i].price_usd_micros])

\* a variant of participants_of: the payers only
participants_of_payers(rs) ==
    sorted_set({ rs[i].payer_agent_id : i \in 1..Len(rs) })

\* 3. participants_list = sorted(participants)
participants_of(rs) ==
    sorted_set({ rs[i].payer_agent_id : i \in 1..Len(rs) }
               \cup { rs[i].payee_agent_id : i \in 1..Len(rs) })

\* a variant of net_pair: the reverse flow is not subtracted
net_pair_gross(balances, a, b, net_balances) ==
    LET a_to_b == dict_get(balances, pair_join(a, b))
        b_to_a == dict_get(balances, pair_join(b, a))
    IN  IF a_to_b > b_to_a
        THEN dict_set(net_balances, pair_join(a, b), a_to_b)
        ELSE IF b_to_a > a_to_b
             THEN dict_set(net_balances, pair_join(b, a), b_to_a)
             ELSE net_balances

\* a variant of net_pair: equal flows still emit an obligation
net_pair_geq(balances, a, b, net_balances) ==
    LET a_to_b == dict_get(balances, pair_join(a, b))
        b_to_a == dict_get(balances, pair_join(b, a))
    IN  IF a_to_b >= b_to_a
        THEN dict_set(net_balances, pair_join(a, b), a_to_b - b_to_a)
        ELSE dict_set(net_balances, pair_join(b, a), b_to_a - a_to_b)

\* 4. one bilateral pair: the body of the loop after the processed check
net_pair(balances, a, b, net_balances) ==
    LET a_to_b == dict_get(balances, pair_join(a, b))
        b_to_a == dict_get(balances, pair_join(b, a))
    IN  IF a_to_b > b_to_a
        THEN dict_set(net_balances, pair_join(a, b), a_to_b - b_to_a)
        ELSE IF b_to_a > a_to_b
             THEN dict_set(net_balances, pair_join(b, a), b_to_a - a_to_b)
             ELSE net_balances

\* 4. one turn of the loop over the keys: skip a processed pair, else net it
net_pairs_step(balances, st, key) ==
    LET ab == split(key)
        pr == sorted_strs(ab)
        pair_key == pair_join(pr[1], pr[2])
    IN  IF pair_key \in st.processed THEN st
        ELSE [processed |-> st.processed \cup {pair_key},
              net_balances |-> net_pair(balances, ab[1], ab[2], st.net_balances)]

net_pairs_loop(keys, balances, processed, net_balances) ==
    LET after[i \in 0..Len(keys)] ==
            IF i = 0 THEN [processed |-> processed, net_balances |-> net_balances]
            ELSE net_pairs_step(balances, after[i - 1], keys[i])
    IN  after[Len(keys)].net_balances

\* a variant of net_balances_of: the gross balances, without netting
net_balances_gross(balances) ==
    [k \in { x \in DOMAIN balances : balances[x] > 0 } |-> balances[k]]

\* 4. for key in sorted(balances.keys()): ...
net_balances_of(balances) ==
    net_pairs_loop(sorted_set(DOMAIN balances), balances, {}, <<>>)

\* 5. for key in sorted(net_balances.keys()): obligations.append(...)
obligation_of(net_balances, key) ==
    LET ft == split(key)
    IN  [from_agent |-> ft[1], to_agent |-> ft[2],
         amount_usd_micros |-> net_balances[key]]

obligations_of(net_balances) ==
    LET keys == sorted_set(DOMAIN net_balances)
    IN  [i \in 1..Len(keys) |-> obligation_of(net_balances, keys[i])]

balances_of(sorted_receipts) == build_balances(sorted_receipts, <<>>)

net_receipts(rs) ==
    LET sorted_receipts == sorted_receipts_of(rs)
    IN  [obligations |-> obligations_of(net_balances_of(balances_of(sorted_receipts))),
         participants |-> participants_of(sorted_receipts),
         receipt_hashes |-> receipt_hashes_of(rs),
         total_volume |-> total_volume_of(sorted_receipts)]

NoNetting == [obligations |-> <<>>, participants |-> <<>>,
              receipt_hashes |-> <<>>, total_volume |-> 0]

(***************************************************************************)
(* The netting state machine.  receipts is the receipt list R of an epoch, *)
(* collected in hash order so that each multiset of receipts is one state; *)
(* submitted is the list handed to net_receipts, any reordering of R.      *)
(***************************************************************************)
\* every reordering of a list
PermSeqs(s) ==
    LET n == Len(s)
    IN  { [i \in 1..n |-> s[f[i]]] :
            f \in { g \in [1..n -> 1..n] : \A i, j \in 1..n : i # j => g[i] # g[j] } }

NetInit ==
    /\ receipts = <<>>
    /\ submitted = <<>>
    /\ net_pc = "collect"
    /\ netting = NoNetting

\* one more MSR joins the receipts of the epoch
AddReceipt ==
    /\ net_pc = "collect"
    /\ Len(receipts) < MaxReceipts
    /\ \E r \in MSR :
          /\ receipts # <<>> =>
                ~SeqLT(get_msr_hash(r), get_msr_hash(receipts[Len(receipts)]))
          /\ receipts' = Append(receipts, r)
    /\ UNCHANGED <<submitted, net_pc, netting>>
    /\ UNCHANGED <<in_vars, dist_vars, dbp_vars, ext_vars>>

\* result = net_receipts(p), p the receipts in the order the caller holds them
NetReceipts ==
    /\ net_pc = "collect"
    /\ \E p \in PermSeqs(receipts) :
          /\ submitted' = p
          /\ netting' = net_receipts(p)
    /\ net_pc' = "netted"
    /\ UNCHANGED receipts
    /\ UNCHANGED <<in_vars, dist_vars, dbp_vars, ext_vars>>

NextNet == AddReceipt \/ NetReceipts

(***************************************************************************)
(* Properties of net_receipts.                                             *)
(***************************************************************************)
Netted == net_pc = "netted"

\* the gross flow payer -> payee of a receipt list, and its directed edges
Flow(rs, a, b) ==
    SumSeq([i \in 1..Len(rs) |->
              IF rs[i].payer_agent_id = a /\ rs[i].payee_agent_id = b
              THEN rs[i].price_usd_micros ELSE 0])

GrossEdges(rs) ==
    { <<rs[i].payer_agent_id, rs[i].payee_agent_id>> : i \in 1..Len(rs) }

\* what the obligations make an agent pay, and receive
ObligationsOut(obls, a) ==
    SumSeq([i \in 1..Len(obls) |->
              IF obls[i].from_agent = a THEN obls[i].amount_usd_micros ELSE 0])

ObligationsIn(obls, a) ==
    SumSeq([i \in 1..Len(obls) |->
              IF obls[i].to_agent = a THEN obls[i].amount_usd_micros ELSE 0])

GrossOut(rs, a) ==
    SumSeq([i \in 1..Len(rs) |->
              IF rs[i].payer_agent_id = a THEN rs[i].price_usd_micros ELSE 0])

GrossIn(rs, a) ==
    SumSeq([i \in 1..Len(rs) |->
              IF rs[i].payee_agent_id = a THEN rs[i].price_usd_micros ELSE 0])

\* some pair of distinct agents has receipts in both directions
Bidirectional(rs) ==
    \E i, j \in 1..Len(rs) :
        /\ rs[i].payer_agent_id # rs[i].payee_agent_id
        /\ rs[i].payer_agent_id = rs[j].payee_agent_id
        /\ rs[i].payee_agent_id = rs[j].payer_agent_id

\* C1: net_receipts is permutation-invariant: netting a reordering p(R) of
\* the receipt list R gives, field for field, the result of netting R.
C1_PermutationInvariant ==
    Netted => netting = net_receipts(receipts)

\* C1 witness: a reordered list of distinct receipts was netted, to a result
\* with an obligation
C1_Witness ==
    /\ Netted
    /\ Len(receipts) >= 3
    /\ submitted # receipts
    /\ submitted[1] # submitted[2]
    /\ Len(netting.obligations) > 0

\* C2: netting conserves each agent's net position: what the obligations
\* make an agent pay minus what they make it receive equals the prices it
\* pays minus the prices it receives over the input receipts.
C2_Conservation ==
    Netted =>
        \A a \in AgentIds :
            ObligationsOut(netting.obligations, a) - ObligationsIn(netting.obligations, a)
                = GrossOut(submitted, a) - GrossIn(submitted, a)

\* C2 witness: flows in both directions between a pair were netted to an
\* obligation
C2_Witness ==
    /\ Netted
    /\ Bidirectional(submitted)
    /\ Len(netting.obligations) > 0

\* C3: netting is minimal per pair: no two obligations have the same
\* unordered pair of agents as their endpoints.
C3_OnePerPair ==
    Netted =>
        \A i, j \in 1..Len(netting.obligations) :
            i # j =>
                {netting.obligations[i].from_agent, netting.obligations[i].to_agent}
                    # {netting.obligations[j].from_agent, netting.obligations[j].to_agent}

\* C3 witness: receipts in both directions and a repeated receipt between
\* the same pair, netted to an obligation
C3_Witness ==
    /\ Netted
    /\ Bidirectional(submitted)
    /\ \E i, j \in 1..Len(submitted) :
          i # j /\ submitted[i].payer_agent_id = submitted[j].payer_agent_id
                /\ submitted[i].payee_agent_id = submitted[j].payee_agent_id
    /\ Len(netting.obligations) = 1

\* C4 as stated: for a non-empty receipt list there are strictly fewer
\* obligations than distinct directed payer -> payee edges.
C4_StrictlyFewerEdges ==
    (Netted /\ submitted # <<>>) =>
        Len(netting.obligations) < Cardinality(GrossEdges(submitted))

\* an edge that netting removes: a self-payment, an edge with a reverse
\* edge, or an edge of total 0
RemovableEdge(rs) ==
    \E e \in GrossEdges(rs) :
        \/ e[1] = e[2]
        \/ <<e[2], e[1]>> \in GrossEdges(rs)
        \/ Flow(rs, e[1], e[2]) = 0

\* C4 amended: there are never more obligations than distinct directed
\* edges, and strictly fewer exactly when netting removes an edge.
C4_NoMoreEdges ==
    Netted =>
        /\ Len(netting.obligations) <= Cardinality(GrossEdges(submitted))
        /\ (Len(netting.obligations) < Cardinality(GrossEdges(submitted)))
               <=> RemovableEdge(submitted)

\* C4 witness: two directions between one pair netted to one obligation
C4_Witness ==
    /\ Netted
    /\ Bidirectional(submitted)
    /\ Cardinality(GrossEdges(submitted)) = 2
    /\ Len(netting.obligations) = 1

\* (from, to) compared component-wise as strings
FromToLT(o1, o2) ==
    \/ SeqLT(o1.from_agent, o2.from_agent)
    \/ (o1.from_agent = o2.from_agent /\ SeqLT(o1.to_agent, o2.to_agent))

\* C5: the obligations are sorted ascending by (from, to), compared
\* component-wise as strings.
C5_SortedByFromTo ==
    Netted =>
        \A i, j \in 1..Len(netting.obligations) :
            i < j => FromToLT(netting.obligations[i], netting.obligations[j])

(***************************************************************************)
(* crypto.py : Ed25519 signatures over digests.  hash_bytes is injective   *)
(* in the canonical bytes, which are injective in the content: a digest    *)
(* is written as the content it is the digest of.                          *)
(***************************************************************************)
ArbiterPrivateKey == "sk_arbiter"
ArbiterPublicKey == "pk_arbiter"

SignerPrivateKey == "sk_signer"
SignerPublicKey == "pk_signer"
OtherPrivateKey == "sk_other"
OtherPublicKey == "pk_other"

\* the public half of a key pair of generate_keypair
public_key_of(private_key) ==
    IF private_key = ArbiterPrivateKey THEN ArbiterPublicKey
    ELSE IF private_key = SignerPrivateKey THEN SignerPublicKey
    ELSE IF private_key = OtherPrivateKey THEN OtherPublicKey
    ELSE "pk_unknown"

hash_bytes(content) == [blake3 |-> content]

sign(message_hash, private_key) ==
    [signed |-> message_hash, by |-> public_key_of(private_key)]

verify(message_hash, signature, public_key) ==
    signature.signed = message_hash /\ signature.by = public_key

(***************************************************************************)
(* dbp.py                                                                  *)
(***************************************************************************)
Creditor == [agent_id : CreditorIds, amount_micros : Amounts, priority : Priorities]

Asset == [asset_type : AssetTypes, value_micros : AssetValues]

Methods == {"PRO_RATA", "PRIORITY", "AUCTION"}

\* the multiplier of basis points
BpsScale == 10000

\* int((receives / c.amount_micros) * 10000) if c.amount_micros > 0 else 0
recovery_bps_of(receives, amount_micros) ==
    IF amount_micros > 0 THEN int_ratio_times(receives, amount_micros, BpsScale) ELSE 0

\* receives = int((c.amount_micros / total_owed) * total_assets)
pro_rata_receives(c, total_owed, total_assets) ==
    int_ratio_times(c.amount_micros, total_owed, total_assets)

pro_rata(cs, total_owed, total_assets) ==
    [i \in 1..Len(cs) |->
        LET receives == pro_rata_receives(cs[i], total_owed, total_assets)
        IN  [creditor_id |-> cs[i].agent_id,
             receives_micros |-> receives,
             recovery_bps |-> recovery_bps_of(receives, cs[i].amount_micros)]]

\* a variant of priority_order: the creditors in the order given
priority_order_unsorted(cs) == cs

\* sorted_creditors = sorted(creditors, key=lambda x: x.priority)
priority_order(cs) == sorted_by(cs, [i \in 1..Len(cs) |-> <<cs[i].priority>>])

\* one turn of the PRIORITY loop
priority_pay(st, c) ==
    LET receives == IF c.amount_micros <= st.remaining
                    THEN c.amount_micros ELSE st.remaining
    IN  [remaining |-> st.remaining - receives,
         distributions |-> Append(st.distributions,
             [creditor_id |-> c.agent_id,
              receives_micros |-> receives,
              recovery_bps |-> recovery_bps_of(receives, c.amount_micros)])]

priority_walk(cs, total_assets) ==
    LET sorted_creditors == priority_order(cs)
        after[i \in 0..Len(cs)] ==
            IF i = 0 THEN [remaining |-> total_assets, distributions |-> <<>>]
            ELSE priority_pay(after[i - 1], sorted_creditors[i])
    IN  after[Len(cs)].distributions

compute_distributions(cs, total_assets, method) ==
    LET total_owed == SumSeq([i \in 1..Len(cs) |-> cs[i].amount_micros])
    IN  IF cs = <<>> THEN <<>>
        ELSE IF total_owed = 0
             THEN [i \in 1..Len(cs) |->
                     [creditor_id |-> cs[i].agent_id, receives_micros |-> 0,
                      recovery_bps |-> 0]]
             ELSE IF method = "PRO_RATA" THEN pro_rata(cs, total_owed, total_assets)
                  ELSE IF method = "PRIORITY" THEN priority_walk(cs, total_assets)
                       ELSE pro_rata(cs, total_owed, total_assets)

total_received(ds) == SumSeq([i \in 1..Len(ds) |-> ds[i].receives_micros])

by_agent_id(cs) == sorted_by(cs, [i \in 1..Len(cs) |-> cs[i].agent_id])

by_asset_type(as) == sorted_by(as, [i \in 1..Len(as) |-> as[i].asset_type])

by_creditor_id(ds) == sorted_by(ds, [i \in 1..Len(ds) |-> ds[i].creditor_id])

\* dbp_content of make_dbp: what is hashed, the lists sorted
dbp_content_of(now, total_owed, cs, total_assets, as, recovery_rate_bps, method, ds, arbiter_agent_id) ==
    [dbp_version |-> "0.1",
     obligations_snapshot |->
         [total_owed_micros |-> total_owed, creditors |-> by_agent_id(cs)],
     assets_snapshot |->
         [total_value_micros |-> total_assets, assets |-> by_asset_type(as)],
     recovery_rate_bps |-> recovery_rate_bps,
     liquidation_plan |-> [method |-> method, distributions |-> by_creditor_id(ds)],
     timestamp_ms |-> now,
     arbiter_agent_id |-> arbiter_agent_id]

\* the DBP of a content, an identity and a signature
dbp_of(content, identity, signature) ==
    [dbp_version |-> content.dbp_version,
     default_id |-> identity,
     obligations_snapshot |-> content.obligations_snapshot,
     assets_snapshot |-> content.assets_snapshot,
     recovery_rate_bps |-> content.recovery_rate_bps,
     liquidation_plan |-> content.liquidation_plan,
     timestamp_ms |-> content.timestamp_ms,
     arbiter_agent_id |-> content.arbiter_agent_id,
     dbp_hash |-> identity,
     signature_ed25519 |-> signature]

make_dbp(now, cs, as, method, arbiter_agent_id, arbiter_private_key) ==
    LET total_owed == SumSeq([i \in 1..Len(cs) |-> cs[i].amount_micros])
        total_assets == SumSeq([i \in 1..Len(as) |-> as[i].value_micros])
        ds == compute_distributions(cs, total_assets, method)
        total_distributed == total_received(ds)
        recovery_rate_bps ==
            IF total_owed > 0
            THEN int_ratio_times(total_distributed, total_owed, BpsScale) ELSE 0
        dbp_content == dbp_content_of(now, total_owed, cs, total_assets, as,
                                      recovery_rate_bps, method, ds, arbiter_agent_id)
        content_hash == hash_bytes(dbp_content)
    IN  dbp_of(dbp_content, content_hash, sign(content_hash, arbiter_private_key))

\* DBP.to_dict without default_id, dbp_hash and signature_ed25519
get_dbp_content(d) ==
    [dbp_version |-> d.dbp_version,
     obligations_snapshot |->
         [total_owed_micros |-> d.obligations_snapshot.total_owed_micros,
          creditors |-> by_agent_id(d.obligations_snapshot.creditors)],
     assets_snapshot |->
         [total_value_micros |-> d.assets_snapshot.total_value_micros,
          assets |-> by_asset_type(d.assets_snapshot.assets)],
     recovery_rate_bps |-> d.recovery_rate_bps,
     liquidation_plan |->
         [method |-> d.liquidation_plan.method,
          distributions |-> by_creditor_id(d.liquidation_plan.distributions)],
     timestamp_ms |-> d.timestamp_ms,
     arbiter_agent_id |-> d.arbiter_agent_id]

Rejected(error) ==
    [valid |-> FALSE, distributions |-> <<>>, recovery_rate_bps |-> 0, error |-> error]

\* a variant of resolve_default: a DBP whose signature does not verify is
\* answered with its plan and its recovery rate
resolve_default_keep_plan(d, arbiter_public_key) ==
    LET computed_hash == hash_bytes(get_dbp_content(d))
        is_valid == verify(computed_hash, d.signature_ed25519, arbiter_public_key)
        total_owed == d.obligations_snapshot.total_owed_micros
        total_distributed == total_received(d.liquidation_plan.distributions)
        total_assets == d.assets_snapshot.total_value_micros
        expected_recovery ==
            IF total_owed > 0
            THEN int_ratio_times(total_distributed, total_owed, BpsScale) ELSE 0
    IN  IF ~is_valid
        THEN [valid |-> FALSE,
              distributions |-> d.liquidation_plan.distributions,
              recovery_rate_bps |-> d.recovery_rate_bps,
              error |-> "Invalid arbiter signature"]
        ELSE IF total_distributed > total_assets
             THEN Rejected("Distributions exceed available assets")
             ELSE IF d.recovery_rate_bps # expected_recovery
                  THEN Rejected("Recovery rate mismatch")
                  ELSE [valid |-> TRUE,
                        distributions |-> d.liquidation_plan.distributions,
                        recovery_rate_bps |-> d.recovery_rate_bps,
                        error |-> "None"]

resolve_default(d, arbiter_public_key) ==
    LET computed_hash == hash_bytes(get_dbp_content(d))
        is_valid == verify(computed_hash, d.signature_ed25519, arbiter_public_key)
        total_owed == d.obligations_snapshot.total_owed_micros
        total_distributed == total_received(d.liquidation_plan.distributions)
        total_assets == d.assets_snapshot.total_value_micros
        expected_recovery ==
            IF total_owed > 0
            THEN int_ratio_times(total_distributed, total_owed, BpsScale) ELSE 0
    IN  IF ~is_valid THEN Rejected("Invalid arbiter signature")
        ELSE IF total_distributed > total_assets
             THEN Rejected("Distributions exceed available assets")
             ELSE IF d.recovery_rate_bps # expected_recovery
                  THEN Rejected("Recovery rate mismatch")
                  ELSE [valid |-> TRUE,
                        distributions |-> d.liquidation_plan.distributions,
                        recovery_rate_bps |-> d.recovery_rate_bps,
                        error |-> "None"]

(***************************************************************************)
(* The default state machine: the creditors and assets of a defaulting     *)
(* agent are listed; compute_distributions is called on the creditors, or  *)
(* the arbiter makes and signs a DBP, which is then resolved.              *)
(***************************************************************************)
NoContent == dbp_content_of(0, 0, <<>>, 0, <<>>, 0, "PRO_RATA", <<>>, ArbiterPublicKey)

NoDbp == dbp_of(NoContent, hash_bytes(NoContent), sign(hash_bytes(NoContent), "sk_none"))

NoDistInput == [total_assets |-> 0, method |-> "PRO_RATA"]

DbpInit ==
    /\ creditors = <<>>
    /\ assets = <<>>
    /\ dist_pc = "input"
    /\ dist_input = NoDistInput
    /\ distributions = <<>>
    /\ dbp_pc = "input"
    /\ dbp = NoDbp
    /\ resolution = Rejected("None")

\* one more creditor on the list
AddCreditor ==
    /\ dist_pc = "input" /\ dbp_pc = "input"
    /\ Len(creditors) < MaxCreditors
    /\ \E c \in Creditor : creditors' = Append(creditors, c)
    /\ UNCHANGED <<assets, net_vars, dist_vars, dbp_vars, ext_vars>>

\* one more asset on the list
AddAsset ==
    /\ dist_pc = "input" /\ dbp_pc = "input"
    /\ Len(assets) < MaxAssets
    /\ \E a \in Asset : assets' = Append(assets, a)
    /\ UNCHANGED <<creditors, net_vars, dist_vars, dbp_vars, ext_vars>>

\* distributions = compute_distributions(creditors, total_assets, method)
Distribute ==
    /\ dist_pc = "input"
    /\ \E total_assets \in TotalAssets, method \in Methods :
          /\ dist_input' = [total_assets |-> total_assets, method |-> method]
          /\ distributions' = compute_distributions(creditors, total_assets, method)
    /\ dist_pc' = "done"
    /\ UNCHANGED <<in_vars, net_vars, dbp_vars, ext_vars>>

\* dbp = make_dbp(..., creditors, assets, method, arbiter, arbiter_private_key)
MakeDbp ==
    /\ dbp_pc = "input"
    /\ \E now \in Clock, method \in Methods :
          dbp' = make_dbp(now, creditors, assets, method,
                          ArbiterPublicKey, ArbiterPrivateKey)
    /\ dbp_pc' = "SIGNED"
    /\ UNCHANGED <<resolution, in_vars, net_vars, dist_vars, ext_vars>>

\* plans an arbiter can write into a DBP instead of the computed one: the
\* receipts of the creditors in reverse, or every creditor paid in full
AlteredPlans(d) ==
    LET ds == d.liquidation_plan.distributions
        cs == d.obligations_snapshot.creditors
        n == Len(ds)
    IN  { [i \in 1..n |->
             [creditor_id |-> ds[i].creditor_id,
              receives_micros |-> ds[n + 1 - i].receives_micros,
              recovery_bps |-> recovery_bps_of(ds[n + 1 - i].receives_micros,
                                               cs[i].amount_micros)]],
          [i \in 1..n |->
             [creditor_id |-> ds[i].creditor_id,
              receives_micros |-> cs[i].amount_micros,
              recovery_bps |-> recovery_bps_of(cs[i].amount_micros,
                                               cs[i].amount_micros)]] }
        \ {ds}

\* the arbiter builds DBP(...) with a plan of its own and the recovery rate
\* of that plan, and signs its content
ArbiterSignsPlan ==
    /\ dbp_pc = "SIGNED"
    /\ \E ds \in AlteredPlans(dbp) :
          LET total_owed == dbp.obligations_snapshot.total_owed_micros
              content == [get_dbp_content(dbp) EXCEPT
                  !.liquidation_plan.distributions = ds,
                  !.recovery_rate_bps =
                      IF total_owed > 0
                      THEN int_ratio_times(total_received(ds), total_owed, BpsScale)
                      ELSE 0]
              content_hash == hash_bytes(content)
          IN  dbp' = dbp_of(content, content_hash, sign(content_hash, ArbiterPrivateKey))
    /\ dbp_pc' = "RESIGNED"
    /\ UNCHANGED <<resolution, in_vars, net_vars, dist_vars, ext_vars>>

\* resolution = resolve_default(dbp, arbiter_public_key)
Resolve ==
    /\ dbp_pc \in {"SIGNED", "RESIGNED"}
    /\ resolution' = resolve_default(dbp, ArbiterPublicKey)
    /\ dbp_pc' = IF resolution'.valid THEN "RESOLVED" ELSE "REJECTED"
    /\ UNCHANGED <<dbp, in_vars, net_vars, dist_vars, ext_vars>>

(***************************************************************************)
(* Properties of resolve_default, compute_distributions and make_dbp       *)
(***************************************************************************)
Resolved == dbp_pc \in {"RESOLVED", "REJECTED"}

\* the distributions compute_distributions gives for the DBP's own
\* creditors, total asset value and method, in the order of the plan
Recomputed(d) ==
    by_creditor_id(compute_distributions(d.obligations_snapshot.creditors,
                                         d.assets_snapshot.total_value_micros,
                                         d.liquidation_plan.method))

\* C6: resolve_default returns valid = false for every DBP whose embedded
\* distributions differ from the recomputed ones, also when the signature is
\* valid and the embedded recovery rate fits the embedded distributions
C6_RejectsAlteredPlan ==
    (Resolved /\ dbp.liquidation_plan.distributions # Recomputed(dbp))
        => ~resolution.valid

Distributed == dist_pc = "done"

TotalOwed == SumSeq([i \in 1..Len(creditors) |-> creditors[i].amount_micros])

ProRata == Distributed /\ dist_input.method \in {"PRO_RATA", "AUCTION"} /\ TotalOwed > 0

\* C7: under PRO_RATA and AUCTION each creditor receives exactly
\* floor(amount * T / total_owed), with recovery_bps exactly
\* floor(receives * 10000 / amount)
C7_ExactFloor ==
    ProRata =>
        \A i \in 1..Len(creditors) :
            /\ distributions[i].receives_micros =
                   (creditors[i].amount_micros * dist_input.total_assets) \div TotalOwed
            /\ creditors[i].amount_micros > 0 =>
                   distributions[i].recovery_bps =
                       (distributions[i].receives_micros * 10000)
                           \div creditors[i].amount_micros

\* the amounts owed to the creditors with the id of a distribution
OwedTo(creditor_id) ==
    SumSeq([i \in 1..Len(creditors) |->
               IF creditors[i].agent_id = creditor_id
               THEN creditors[i].amount_micros ELSE 0])

\* C8: for every method the distributions sum to at most the total assets
\* and no creditor receives more than its own amount
C8_WithinAssetsAndAmounts ==
    Distributed =>
        /\ total_received(distributions) <= dist_input.total_assets
        /\ \A k \in 1..Len(distributions) :
               distributions[k].receives_micros <= OwedTo(distributions[k].creditor_id)

Priority == Distributed /\ dist_input.method = "PRIORITY"

DistinctIds ==
    \A i, j \in 1..Len(creditors) :
        creditors[i].agent_id = creditors[j].agent_id => i = j

\* what the creditor with this id receives
ReceivesOf(creditor_id) ==
    SumSeq([k \in 1..Len(distributions) |->
               IF distributions[k].creditor_id = creditor_id
               THEN distributions[k].receives_micros ELSE 0])

Min(a, b) == IF a <= b THEN a ELSE b

\* what is left of the assets after the creditors of strictly higher
\* priority than creditor i were paid
LeftAfterHigher(i) ==
    dist_input.total_assets -
        SumSeq([j \in 1..Len(creditors) |->
                   IF creditors[j].priority < creditors[i].priority
                   THEN ReceivesOf(creditors[j].agent_id) ELSE 0])

\* C9: under PRIORITY a creditor of higher priority is paid in full before a
\* creditor of lower priority receives anything, and every creditor receives
\* min(amount, assets left after all creditors of strictly higher priority)
C9_MinOfLeftAfterHigher ==
    (Priority /\ DistinctIds) =>
        /\ \A i, j \in 1..Len(creditors) :
               (/\ creditors[i].priority < creditors[j].priority
                /\ ReceivesOf(creditors[j].agent_id) > 0)
                   => ReceivesOf(creditors[i].agent_id) = creditors[i].amount_micros
        /\ \A i \in 1..Len(creditors) :
               ReceivesOf(creditors[i].agent_id) =
                   Min(creditors[i].amount_micros, LeftAfterHigher(i))

\* creditor j is paid before creditor i: its priority is strictly higher,
\* or equal and it stands earlier in the list
Precedes(j, i) ==
    \/ creditors[j].priority < creditors[i].priority
    \/ creditors[j].priority = creditors[i].priority /\ j < i

\* the place of creditor i's distribution in the output
Pos(i) ==
    IF TotalOwed = 0 THEN i
    ELSE 1 + Cardinality({j \in 1..Len(creditors) : Precedes(j, i)})

Recv(i) == distributions[Pos(i)].receives_micros

LeftAfterPreceding(i) ==
    dist_input.total_assets -
        SumSeq([j \in 1..Len(creditors) |-> IF Precedes(j, i) THEN Recv(j) ELSE 0])

\* C9, amended: under PRIORITY a creditor of higher priority is paid in full
\* before a creditor of lower priority receives anything, and every creditor
\* receives min(amount, assets left after the creditors paid before it),
\* those being the creditors of strictly higher priority and the creditors
\* of equal priority that stand earlier in the list
C9_MinOfLeftAfterPreceding ==
    Priority =>
        /\ Len(distributions) = Len(creditors)
        /\ \A i \in 1..Len(creditors) :
               /\ distributions[Pos(i)].creditor_id = creditors[i].agent_id
               /\ Recv(i) = Min(creditors[i].amount_micros, LeftAfterPreceding(i))
        /\ \A i, j \in 1..Len(creditors) :
               (creditors[i].priority < creditors[j].priority /\ Recv(j) > 0)
                   => Recv(i) = creditors[i].amount_micros

\* two creditors of equal priority share assets that do not cover both: the
\* earlier one is paid in full, the later one only in part
C9_Witness ==
    /\ Priority
    /\ \E i, j \in 1..Len(creditors) :
          /\ i < j
          /\ creditors[i].priority = creditors[j].priority
          /\ creditors[i].agent_id # creditors[j].agent_id
          /\ creditors[i].amount_micros > 0
          /\ Recv(i) = creditors[i].amount_micros
          /\ Recv(j) > 0
          /\ Recv(j) < creditors[j].amount_micros

Signed == dbp_pc = "SIGNED"

DistinctTypes ==
    \A i, j \in 1..Len(assets) :
        assets[i].asset_type = assets[j].asset_type => i = j

\* C10: for the same clock value and arguments, make_dbp of any permutation
\* of the creditors (of distinct ids) and of the assets (of distinct types)
\* gives the same distributions, recovery rate and dbp_hash, for every method
C10_OrderIndependent ==
    (Signed /\ DistinctIds /\ DistinctTypes) =>
        \A cs \in PermSeqs(creditors), as \in PermSeqs(assets) :
            LET d == make_dbp(dbp.timestamp_ms, cs, as, dbp.liquidation_plan.method,
                              ArbiterPublicKey, ArbiterPrivateKey)
            IN  /\ d.liquidation_plan.distributions = dbp.liquidation_plan.distributions
                /\ d.recovery_rate_bps = dbp.recovery_rate_bps
                /\ d.dbp_hash = dbp.dbp_hash

(***************************************************************************)
(* canonical.py : the canonical JSON codec.  A value is a record of one    *)
(* shape: t is its Python type; n is the truth value of a bool (1 or 0)    *)
(* or the sign of an int (1 when negative); s is the text of a str, the    *)
(* decimal digits of the magnitude of an int or the repr of a float; kids  *)
(* are the elements of a list or the values of a dict, whose keys stand in *)
(* insertion order in keys.                                                *)
(***************************************************************************)
JNull == [t |-> "NoneType", n |-> 0, s |-> <<>>, kids |-> <<>>, keys |-> <<>>]

JBool(b) == [t |-> "bool", n |-> IF b THEN 1 ELSE 0, s |-> <<>>, kids |-> <<>>, keys |-> <<>>]

JInt(negative, digits) ==
    [t |-> "int", n |-> IF negative THEN 1 ELSE 0, s |-> digits, kids |-> <<>>, keys |-> <<>>]

JFloat(repr) == [t |-> "float", n |-> 0, s |-> repr, kids |-> <<>>, keys |-> <<>>]

JStr(text) == [t |-> "str", n |-> 0, s |-> text, kids |-> <<>>, keys |-> <<>>]

JList(elements) == [t |-> "list", n |-> 0, s |-> <<>>, kids |-> elements, keys |-> <<>>]

JDict(ks, values) == [t |-> "dict", n |-> 0, s |-> <<>>, kids |-> values, keys |-> ks]

\* value[k] of a dict
dict_item(value, k) == value.kids[CHOOSE i \in 1..Len(value.keys) : value.keys[i] = k]

\* sep.join(strs)
RECURSIVE join(_, _)
join(strs, sep) ==
    IF strs = <<>> THEN <<>>
    ELSE IF Len(strs) = 1 THEN strs[1]
    ELSE LET half == Len(strs) \div 2
         IN  join(SubSeq(strs, 1, half), sep) \o sep
                 \o join(SubSeq(strs, half + 1, Len(strs)), sep)

\* the digit of f'{code:04x}' for a value below 16
hex_digit(d) == IF d < 10 THEN 48 + d ELSE 87 + d

\* a variant of escape_char: the tab is copied as it is
escape_char_keep_tab(c) ==
    IF c = 34 THEN <<92, 34>>
    ELSE IF c = 92 THEN <<92, 92>>
    ELSE IF c = 8 THEN <<92, 98>>
    ELSE IF c = 12 THEN <<92, 102>>
    ELSE IF c = 10 THEN <<92, 110>>
    ELSE IF c = 13 THEN <<92, 114>>
    ELSE IF c < 32 /\ c # 9
         THEN <<92, 117, 48, 48, hex_digit(c \div 16), hex_digit(c % 16)>>
    ELSE <<c>>

\* a variant of escape_char: the quote is copied as it is
escape_char_keep_quote(c) ==
    IF c = 92 THEN <<92, 92>>
    ELSE IF c = 8 THEN <<92, 98>>
    ELSE IF c = 12 THEN <<92, 102>>
    ELSE IF c = 10 THEN <<92, 110>>
    ELSE IF c = 13 THEN <<92, 114>>
    ELSE IF c = 9 THEN <<92, 116>>
    ELSE IF c < 32
         THEN <<92, 117, 48, 48, hex_digit(c \div 16), hex_digit(c % 16)>>
    ELSE <<c>>

\* one turn of the loop of escape_string
escape_char(c) ==
    IF c = 34 THEN <<92, 34>>
    ELSE IF c = 92 THEN <<92, 92>>
    ELSE IF c = 8 THEN <<92, 98>>
    ELSE IF c = 12 THEN <<92, 102>>
    ELSE IF c = 10 THEN <<92, 110>>
    ELSE IF c = 13 THEN <<92, 114>>
    ELSE IF c = 9 THEN <<92, 116>>
    ELSE IF c < 32
         THEN <<92, 117, 48, 48, hex_digit(c \div 16), hex_digit(c % 16)>>
    ELSE <<c>>

escape_string(text) ==
    <<34>> \o join([i \in 1..Len(text) |-> escape_char(text[i])], <<>>) \o <<34>>

\* the digits of 2**53 - 1
MaxSafeDigits == <<57, 48, 48, 55, 49, 57, 57, 50, 53, 52, 55, 52, 48, 57, 57, 49>>

\* isinstance(value, bool); isinstance(value, int), which holds of a bool too
isinstance_bool(value) == value.t = "bool"
isinstance_int(value) == value.t \in {"int", "bool"}

\* a variant of in_safe_range: every integer passes
in_any_range(value) == TRUE

\* -2**53 + 1 <= value <= 2**53 - 1
in_safe_range(value) ==
    \/ value.t = "bool"
    \/ Len(value.s) < Len(MaxSafeDigits)
    \/ Len(value.s) = Len(MaxSafeDigits) /\ ~SeqLT(MaxSafeDigits, value.s)

\* str(value) of an int: "True" and "False" for a bool
str_int(value) ==
    IF value.t = "bool"
    THEN (IF value.n = 1 THEN <<84, 114, 117, 101>> ELSE <<70, 97, 108, 115, 101>>)
    ELSE (IF value.n = 1 THEN <<45>> ELSE <<>>) \o value.s

\* a variant of sorted_keys: the keys in insertion order
insertion_keys(value) == value.keys

\* keys = sorted(value.keys())
sorted_keys(value) == sorted_strs(value.keys)

Returned(out) == [ok |-> TRUE, out |-> out, error |-> "None"]

Raised(error) == [ok |-> FALSE, out |-> <<>>, error |-> error]

\* the exception of the first call that raised, else the results joined
joined(results, open, close) ==
    IF \E i \in 1..Len(results) : ~results[i].ok
    THEN results[CHOOSE i \in 1..Len(results) :
                    ~results[i].ok /\ \A j \in 1..(i - 1) : results[j].ok]
    ELSE Returned(open \o join([i \in 1..Len(results) |-> results[i].out], <<44>>) \o close)

RECURSIVE canonicalize(_)
canonicalize(value) ==
    IF value.t = "NoneType" THEN Returned(<<110, 117, 108, 108>>)
    ELSE IF isinstance_bool(value)
         THEN Returned(IF value.n = 1 THEN <<116, 114, 117, 101>>
                                      ELSE <<102, 97, 108, 115, 101>>)
    ELSE IF isinstance_int(value)
         THEN (IF ~in_safe_range(value)
               THEN Raised("Number outside safe integer range")
               ELSE Returned(str_int(value)))
    ELSE IF value.t = "float" THEN Raised("Floats forbidden in canonical JSON")
    ELSE IF value.t = "str" THEN Returned(escape_string(value.s))
    ELSE IF value.t = "list"
         THEN joined([i \in 1..Len(value.kids) |-> canonicalize(value.kids[i])],
                     <<91>>, <<93>>)
    ELSE IF value.t = "dict"
         THEN LET ks == sorted_keys(value)
                  pairs == [i \in 1..Len(ks) |->
                               LET r == canonicalize(dict_item(value, ks[i]))
                               IN  IF r.ok
                                   THEN Returned(escape_string(ks[i]) \o <<58>> \o r.out)
                                   ELSE r]
              IN  joined(pairs, <<123>>, <<125>>)
    ELSE Raised("Unsupported type in canonical JSON")

(***************************************************************************)
(* The codec state machine: a value is chosen, wrapped in lists and dicts  *)
(* up to MaxDepth levels, and canonicalized.                               *)
(***************************************************************************)
\* 0, 1, 2**53 - 1, 2**53, -(2**53 - 1), -(2**53)
Ints ==
    { JInt(FALSE, <<48>>), JInt(FALSE, <<49>>),
      JInt(FALSE, MaxSafeDigits), JInt(TRUE, MaxSafeDigits),
      JInt(FALSE, <<57, 48, 48, 55, 49, 57, 57, 50, 53, 52, 55, 52, 48, 57, 57, 50>>),
      JInt(TRUE, <<57, 48, 48, 55, 49, 57, 57, 50, 53, 52, 55, 52, 48, 57, 57, 50>>) }

\* 1.5
Floats == { JFloat(<<49, 46, 53>>) }

\* "", "1", "a b", tab, newline, a quote, a backslash, U+0001
Strs ==
    { JStr(<<>>), JStr(<<49>>), JStr(<<97, 32, 98>>), JStr(<<9>>), JStr(<<10>>),
      JStr(<<34>>), JStr(<<92>>), JStr(<<1>>) }

Leaves ==
    {JNull, JBool(TRUE), JBool(FALSE), JList(<<>>), JDict(<<>>, <<>>)}
        \cup Ints \cup Floats \cup Strs

\* what stands beside a value in a list or dict: true and "b"
Fillers == { JBool(TRUE), JStr(<<98>>) }

\* the keys "a", "B" and "a b"
Keys == { <<97>>, <<66>>, <<97, 32, 98>> }

RECURSIVE Depth(_)
Depth(value) ==
    IF value.kids = <<>> THEN 0
    ELSE LET d == [i \in 1..Len(value.kids) |-> Depth(value.kids[i])]
         IN  1 + d[CHOOSE i \in 1..Len(d) : \A j \in 1..Len(d) : d[j] <= d[i]]

NoResult == Raised("None")

CanonInit ==
    /\ canon_pc = "empty"
    /\ canon_value = JNull
    /\ canon_result = NoResult

\* the caller starts from a scalar or an empty container
ChooseLeaf ==
    /\ canon_pc = "empty"
    /\ \E v \in Leaves : canon_value' = v
    /\ canon_pc' = "built"
    /\ UNCHANGED <<canon_result, net_vars, in_vars, dist_vars, dbp_vars, rec_vars, more_vars>>

\* the value becomes an element of a list
WrapInList ==
    /\ canon_pc = "built"
    /\ Depth(canon_value) < MaxDepth
    /\ \E f \in Fillers :
          canon_value' \in { JList(<<canon_value>>), JList(<<canon_value, f>>),
                             JList(<<f, canon_value>>) }
    /\ UNCHANGED <<canon_pc, canon_result, net_vars, in_vars, dist_vars, dbp_vars, rec_vars, more_vars>>

\* the value becomes a value of a dict, inserted first
WrapInDict ==
    /\ canon_pc = "built"
    /\ Depth(canon_value) < MaxDepth
    /\ \E k1 \in Keys, f \in Fillers :
          \E k2 \in Keys \ {k1} :
              canon_value' \in { JDict(<<k1>>, <<canon_value>>),
                                 JDict(<<k1, k2>>, <<canon_value, f>>) }
    /\ UNCHANGED <<canon_pc, canon_result, net_vars, in_vars, dist_vars, dbp_vars, rec_vars, more_vars>>

\* canon_result = canonicalize(canon_value)
Canonicalize ==
    /\ canon_pc = "built"
    /\ canon_result' = canonicalize(canon_value)
    /\ canon_pc' = "done"
    /\ UNCHANGED <<canon_value, net_vars, in_vars, dist_vars, dbp_vars, rec_vars, more_vars>>

NextCanon == ChooseLeaf \/ WrapInList \/ WrapInDict \/ Canonicalize

(***************************************************************************)
(* Properties of canonicalize                                              *)
(***************************************************************************)
Canonicalized == canon_pc = "done"

\* tab, line feed, vertical tab, form feed, carriage return and space
Whitespace == {9, 10, 11, 12, 13, 32}

SpacesOf(text) == Cardinality({i \in 1..Len(text) : text[i] = 32})

\* the number of spaces in the strings and the keys of a value
RECURSIVE SpacesIn(_)
SpacesIn(value) ==
    SpacesOf(value.s)
        + SumSeq([i \in 1..Len(value.keys) |-> SpacesOf(value.keys[i])])
        + SumSeq([i \in 1..Len(value.kids) |-> SpacesIn(value.kids[i])])

RECURSIVE Holds(_, _)
\* the value is, or holds at some depth, the leaf
Holds(value, leaf) ==
    \/ value = leaf
    \/ \E i \in 1..Len(value.kids) : Holds(value.kids[i], leaf)

RECURSIVE Reorderings(_)
Reorderings(value) ==
    LET n == Len(value.kids)
        choices == { ks \in [1..n -> UNION {Reorderings(value.kids[i]) : i \in 1..n}] :
                        \A i \in 1..n : ks[i] \in Reorderings(value.kids[i]) }
    IN  IF value.t = "dict"
        THEN { [value EXCEPT !.keys = [i \in 1..n |-> value.keys[p[i]]],
                             !.kids = [i \in 1..n |-> ks[p[i]]]] :
                  p \in PermSeqs([i \in 1..n |-> i]), ks \in choices }
        ELSE IF value.t = "list"
             THEN { [value EXCEPT !.kids = ks] : ks \in choices }
             ELSE {value}

\* the first place of a text in a string, 0 when it is not there
Find(text, str) ==
    LET at == {i \in 1..(Len(str) - Len(text) + 1) :
                  \A j \in 1..Len(text) : str[i + j - 1] = text[j]}
    IN  IF at = {} THEN 0 ELSE CHOOSE i \in at : \A j \in at : i <= j

\* C18: the same pairs inserted in another order, at any depth, canonicalize
\* to the same string; the keys of a map stand in ascending code point order;
\* the elements of an array stand in the order of the array
C18_InsertionOrderFree ==
    Canonicalized =>
        /\ \A w \in Reorderings(canon_value) : canonicalize(w) = canon_result
        /\ (canon_result.ok /\ canon_value.t = "dict") =>
               \A i, j \in 1..Len(canon_value.keys) :
                   SeqLT(canon_value.keys[i], canon_value.keys[j]) =>
                       /\ Find(escape_string(canon_value.keys[i]) \o <<58>>,
                               canon_result.out) > 0
                       /\ Find(escape_string(canon_value.keys[i]) \o <<58>>,
                               canon_result.out)
                            < Find(escape_string(canon_value.keys[j]) \o <<58>>,
                                   canon_result.out)
        /\ (canon_result.ok /\ canon_value.t = "list") =>
               canon_result.out =
                   <<91>> \o join([i \in 1..Len(canon_value.kids) |->
                                      canonicalize(canon_value.kids[i]).out], <<44>>)
                          \o <<93>>

\* a dict whose keys were inserted in descending order, holding a dict whose
\* keys were inserted in descending order too, was canonicalized
C18_Witness ==
    /\ Canonicalized /\ canon_result.ok
    /\ canon_value.t = "dict" /\ Len(canon_value.keys) = 2
    /\ SeqLT(canon_value.keys[2], canon_value.keys[1])
    /\ \E i \in 1..2 :
          /\ canon_value.kids[i].t = "dict" /\ Len(canon_value.kids[i].keys) = 2
          /\ SeqLT(canon_value.kids[i].keys[2], canon_value.kids[i].keys[1])
    /\ Cardinality(Reorderings(canon_value)) = 4

\* the digits are beyond those of 2**53 - 1
BeyondSafe(digits) ==
    \/ Len(digits) > 16
    \/ Len(digits) = 16 /\ SeqLT(MaxSafeDigits, digits)

\* the value is, or holds at some depth, a float or an integer out of range
RECURSIVE HasUnsupported(_)
HasUnsupported(value) ==
    \/ value.t = "float"
    \/ value.t = "int" /\ BeyondSafe(value.s)
    \/ \E i \in 1..Len(value.kids) : HasUnsupported(value.kids[i])

\* C19: canonicalize fails, with no output, exactly on the values that hold
\* at some depth a float or an integer outside [-(2^53-1), 2^53-1]; a boolean
\* is written true or false
C19_RejectsFloatsAndUnsafeInts ==
    Canonicalized =>
        /\ canon_result.ok <=> ~HasUnsupported(canon_value)
        /\ ~canon_result.ok => (canon_result.out = <<>> /\ canon_result.error # "None")
        /\ canon_value = JBool(TRUE) => canon_result.out = <<116, 114, 117, 101>>
        /\ canon_value = JBool(FALSE) => canon_result.out = <<102, 97, 108, 115, 101>>

\* 2**53 two levels deep, beside supported values, made canonicalize fail
C19_Witness ==
    /\ Canonicalized /\ ~canon_result.ok
    /\ Depth(canon_value) = 2
    /\ Len(canon_value.kids) = 2
    /\ ~Holds(canon_value, JFloat(<<49, 46, 53>>))
    /\ Holds(canon_value,
             JInt(FALSE, <<57, 48, 48, 55, 49, 57, 57, 50, 53, 52, 55, 52, 48, 57, 57, 50>>))
    /\ canon_result.error = "Number outside safe integer range"

\* a value in a list or in a dict, beside true or "b" or alone
Wrapped(value) ==
    UNION { { JList(<<value>>), JList(<<value, f>>), JList(<<f, value>>) } : f \in Fillers }
    \cup UNION { { JDict(<<k1>>, <<value>>), JDict(<<k1, k2>>, <<value, f>>) } :
                   k1 \in Keys, k2 \in Keys, f \in Fillers }

\* the values the canonical string of a value is compared with: the scalars,
\* the empty containers, and each of them in a list or in a dict
Compared == Leaves \cup UNION { Wrapped(value) : value \in Leaves }

Encodings == [w \in Compared |-> canonicalize(w)]

\* the canonical strings of these values
EncodingSet == { Encodings[w].out : w \in { v \in Compared : Encodings[v].ok } }

\* the values that differ from a value in one scalar, at any depth
RECURSIVE OneChanged(_)
OneChanged(value) ==
    IF value.kids = <<>> THEN Leaves
    ELSE { [value EXCEPT !.kids[i] = x] :
              i \in 1..Len(value.kids),
              x \in UNION { OneChanged(value.kids[j]) : j \in 1..Len(value.kids) } }

\* the list of one string, or dict of one string, whose text is what stands
\* between the first and the last quote of the elements of the value: a
\* value of another structure that the same characters could be read as
Requoted(value) ==
    LET out == canonicalize(value).out
        n == Len(value.kids)
        first == IF value.t = "dict" THEN Len(escape_string(value.keys[1])) + 4 ELSE 3
        text == SubSeq(out, first, Len(out) - 2)
    IN  IF n = 0 \/ value.kids[1].t # "str" \/ value.kids[n].t # "str"
           \/ (value.t = "dict" /\ value.keys[1] # sorted_keys(value)[1])
        THEN {}
        ELSE IF value.t = "dict" THEN { JDict(<<value.keys[1]>>, <<JStr(text)>>) }
        ELSE { JList(<<JStr(text)>>) }

\* C30: two values of the domain with the same canonical string are the same
\* value, dicts being the same whatever the order of insertion: the string
\* of a value is the string of no other scalar or container of scalars and,
\* for a scalar or a container of scalars, of no value with one scalar
\* changed and of no list or dict of one string made of the same characters;
\* "1", 1 and true have three strings
C30_Injective ==
    (Canonicalized /\ canon_result.ok)
    => /\ canon_result.out \in EncodingSet
          => \A w \in Compared :
                Encodings[w] = canon_result => w \in Reorderings(canon_value)
       /\ Depth(canon_value) <= 1
          => \A w \in OneChanged(canon_value) \cup Requoted(canon_value) :
                canonicalize(w) = canon_result => w \in Reorderings(canon_value)
       /\ canon_value \in { JStr(<<49>>), JInt(FALSE, <<49>>), JBool(TRUE) }
          => /\ Encodings[JStr(<<49>>)].out = <<34, 49, 34>>
             /\ Encodings[JInt(FALSE, <<49>>)].out = <<49>>
             /\ Encodings[JBool(TRUE)].out = <<116, 114, 117, 101>>

\* the list of "" and "b" was canonicalized, and so can be compared with the
\* list of the one string that holds quote, comma, quote and b
C30_Witness ==
    /\ Canonicalized /\ canon_result.ok
    /\ canon_value = JList(<<JStr(<<>>), JStr(<<98>>)>>)
    /\ Requoted(canon_value) = { JList(<<JStr(<<34, 44, 34, 98>>)>>) }
    /\ canon_result.out = <<91, 34, 34, 44, 34, 98, 34, 93>>

\* the string "1" was canonicalized: not as the integer 1 and not as true
C30_WitnessOne ==
    /\ Canonicalized /\ canon_result.ok
    /\ canon_value = JStr(<<49>>)
    /\ canon_result.out # canonicalize(JInt(FALSE, <<49>>)).out
    /\ canon_result.out # canonicalize(JBool(TRUE)).out

(***************************************************************************)
(* The signed records.  A field that is canonicalized holds a value of the *)
(* codec (JStr, JInt, ...); a signature is kept as sign made it.           *)
(***************************************************************************)
\* the text "0.1" of the version fields, and another version, "0.2"
Version01 == JStr(<<48, 46, 49>>)
Version02 == JStr(<<48, 46, 50>>)

\* the digits of str(n), n >= 0
RECURSIVE digits_of(_)
digits_of(n) == IF n < 10 THEN <<48 + n>> ELSE Append(digits_of(n \div 10), 48 + (n % 10))

\* a Python int as a value of the codec
int_json(n) == IF n < 0 THEN JInt(TRUE, digits_of(0 - n)) ELSE JInt(FALSE, digits_of(n))

\* value < 0 and value <= 0 of an int or float field
lt_zero(value) == value.n = 1
le_zero(value) == value.n = 1 \/ value.s = <<48>>

\* a < b of two int fields
int_lt(a, b) ==
    LET shorter(x, y) == Len(x) < Len(y) \/ (Len(x) = Len(y) /\ SeqLT(x, y))
    IN  IF a.n = 1 /\ b.n = 1 THEN shorter(b.s, a.s)
        ELSE IF a.n = 1 THEN TRUE
        ELSE IF b.n = 1 THEN FALSE
        ELSE shorter(a.s, b.s)

\* canonicalize_bytes(value): the encoding of the canonical string
canonicalize_bytes(value) == canonicalize(value)

\* "" where a verifier returns no hash
NoHash == hash_bytes(<<>>)

\* 2**53 and 1.5: values the codec refuses
Unsafe == JInt(FALSE, <<57, 48, 48, 55, 49, 57, 57, 50, 53, 52, 55, 52, 48, 57, 57, 50>>)
OnePointFive == JFloat(<<49, 46, 53>>)

\* the result (valid, hash, error) of a verifier, and the exception that
\* leaves it instead
Verdict(valid, h, error) == [valid |-> valid, hash |-> h, error |-> error, raised |-> FALSE]

Propagated(error) == [valid |-> FALSE, hash |-> NoHash, error |-> error, raised |-> TRUE]

(***************************************************************************)
(* msr.py                                                                  *)
(***************************************************************************)
\* the keys of msr_data in the order of MSR.to_dict, signature_ed25519 deleted
MsrFields ==
    << "msr_version", "payer_agent_id", "payee_agent_id", "resource_type", "units",
       "unit_type", "price_usd_micros", "timestamp_ms", "nonce", "scope_hash",
       "request_hash", "response_hash", "prev_receipt_hash" >>

\* the characters of a dictionary key or of a fixed string
FieldText ==
    [start_ms |-> <<115, 116, 97, 114, 116, 95, 109, 115>>,
     end_ms |-> <<101, 110, 100, 95, 109, 115>>,
     penalty_usd_micros |-> <<112, 101, 110, 97, 108, 116, 121, 95, 117, 115, 100, 95, 109, 105, 99, 114, 111, 115>>,
     rule_hash |-> <<114, 117, 108, 101, 95, 104, 97, 115, 104>>,
     issuer |-> <<105, 115, 115, 117, 101, 114>>,
     counterparty |-> <<99, 111, 117, 110, 116, 101, 114, 112, 97, 114, 116, 121>>,
     resource |-> <<114, 101, 115, 111, 117, 114, 99, 101>>,
     units |-> <<117, 110, 105, 116, 115>>,
     window |-> <<119, 105, 110, 100, 111, 119>>,
     fc_version |-> <<102, 99, 95, 118, 101, 114, 115, 105, 111, 110>>,
     issuer_agent_id |-> <<105, 115, 115, 117, 101, 114, 95, 97, 103, 101, 110, 116, 95, 105, 100>>,
     counterparty_agent_id |-> <<99, 111, 117, 110, 116, 101, 114, 112, 97, 114, 116, 121, 95, 97, 103, 101, 110, 116, 95, 105, 100>>,
     resource_type |-> <<114, 101, 115, 111, 117, 114, 99, 101, 95, 116, 121, 112, 101>>,
     unit_type |-> <<117, 110, 105, 116, 95, 116, 121, 112, 101>>,
     delivery_window |-> <<100, 101, 108, 105, 118, 101, 114, 121, 95, 119, 105, 110, 100, 111, 119>>,
     penalty |-> <<112, 101, 110, 97, 108, 116, 121>>,
     collateral |-> <<99, 111, 108, 108, 97, 116, 101, 114, 97, 108>>,
     commitment_hash |-> <<99, 111, 109, 109, 105, 116, 109, 101, 110, 116, 95, 104, 97, 115, 104>>,
     asset_type |-> <<97, 115, 115, 101, 116, 95, 116, 121, 112, 101>>,
     amount |-> <<97, 109, 111, 117, 110, 116>>,
     liability_type |-> <<108, 105, 97, 98, 105, 108, 105, 116, 121, 95, 116, 121, 112, 101>>,
     mbs_version |-> <<109, 98, 115, 95, 118, 101, 114, 115, 105, 111, 110>>,
     agent_id |-> <<97, 103, 101, 110, 116, 95, 105, 100>>,
     assets |-> <<97, 115, 115, 101, 116, 115>>,
     liabilities |-> <<108, 105, 97, 98, 105, 108, 105, 116, 105, 101, 115>>,
     burn_rate_usd_micros_per_s |-> <<98, 117, 114, 110, 95, 114, 97, 116, 101, 95, 117, 115, 100, 95, 109, 105, 99, 114, 111, 115, 95, 112, 101, 114, 95, 115>>,
     solvency_ratio |-> <<115, 111, 108, 118, 101, 110, 99, 121, 95, 114, 97, 116, 105, 111>>,
     timestamp_ms |-> <<116, 105, 109, 101, 115, 116, 97, 109, 112, 95, 109, 115>>,
     from |-> <<102, 114, 111, 109>>,
     to |-> <<116, 111>>,
     amount_usd_micros |-> <<97, 109, 111, 117, 110, 116, 95, 117, 115, 100, 95, 109, 105, 99, 114, 111, 115>>,
     epoch |-> <<101, 112, 111, 99, 104>>,
     receipts |-> <<114, 101, 99, 101, 105, 112, 116, 115>>,
     obligations |-> <<111, 98, 108, 105, 103, 97, 116, 105, 111, 110, 115>>,
     ian_version |-> <<105, 97, 110, 95, 118, 101, 114, 115, 105, 111, 110>>,
     epoch_id |-> <<101, 112, 111, 99, 104, 95, 105, 100>>,
     participants |-> <<112, 97, 114, 116, 105, 99, 105, 112, 97, 110, 116, 115>>,
     included_receipt_hashes |-> <<105, 110, 99, 108, 117, 100, 101, 100, 95, 114, 101, 99, 101, 105, 112, 116, 95, 104, 97, 115, 104, 101, 115>>,
     net_obligations |-> <<110, 101, 116, 95, 111, 98, 108, 105, 103, 97, 116, 105, 111, 110, 115>>,
     netting_hash |-> <<110, 101, 116, 116, 105, 110, 103, 95, 104, 97, 115, 104>>,
     amr_version |-> <<97, 109, 114, 95, 118, 101, 114, 115, 105, 111, 110>>,
     record_id |-> <<114, 101, 99, 111, 114, 100, 95, 105, 100>>,
     consumer_agent_id |-> <<99, 111, 110, 115, 117, 109, 101, 114, 95, 97, 103, 101, 110, 116, 95, 105, 100>>,
     provider_agent_id |-> <<112, 114, 111, 118, 105, 100, 101, 114, 95, 97, 103, 101, 110, 116, 95, 105, 100>>,
     resource_class |-> <<114, 101, 115, 111, 117, 114, 99, 101, 95, 99, 108, 97, 115, 115>>,
     resource_subtype |-> <<114, 101, 115, 111, 117, 114, 99, 101, 95, 115, 117, 98, 116, 121, 112, 101>>,
     metering |-> <<109, 101, 116, 101, 114, 105, 110, 103>>,
     attestation |-> <<97, 116, 116, 101, 115, 116, 97, 116, 105, 111, 110>>,
     pricing |-> <<112, 114, 105, 99, 105, 110, 103>>,
     context |-> <<99, 111, 110, 116, 101, 120, 116>>,
     amr_hash |-> <<97, 109, 114, 95, 104, 97, 115, 104>>,
     quantity |-> <<113, 117, 97, 110, 116, 105, 116, 121>>,
     unit |-> <<117, 110, 105, 116>>,
     duration_ms |-> <<100, 117, 114, 97, 116, 105, 111, 110, 95, 109, 115>>,
     method |-> <<109, 101, 116, 104, 111, 100>>,
     confidence_bps |-> <<99, 111, 110, 102, 105, 100, 101, 110, 99, 101, 95, 98, 112, 115>>,
     rate_micros_per_unit |-> <<114, 97, 116, 101, 95, 109, 105, 99, 114, 111, 115, 95, 112, 101, 114, 95, 117, 110, 105, 116>>,
     total_micros |-> <<116, 111, 116, 97, 108, 95, 109, 105, 99, 114, 111, 115>>,
     currency |-> <<99, 117, 114, 114, 101, 110, 99, 121>>,
     request_hash |-> <<114, 101, 113, 117, 101, 115, 116, 95, 104, 97, 115, 104>>,
     response_hash |-> <<114, 101, 115, 112, 111, 110, 115, 101, 95, 104, 97, 115, 104>>,
     COMPUTE |-> <<67, 79, 77, 80, 85, 84, 69>>,
     USD |-> <<85, 83, 68>>,
     msr_version |-> <<109, 115, 114, 95, 118, 101, 114, 115, 105, 111, 110>>,
     payer_agent_id |-> <<112, 97, 121, 101, 114, 95, 97, 103, 101, 110, 116, 95, 105, 100>>,
     payee_agent_id |-> <<112, 97, 121, 101, 101, 95, 97, 103, 101, 110, 116, 95, 105, 100>>,
     price_usd_micros |-> <<112, 114, 105, 99, 101, 95, 117, 115, 100, 95, 109, 105, 99, 114, 111, 115>>,
     nonce |-> <<110, 111, 110, 99, 101>>,
     scope_hash |-> <<115, 99, 111, 112, 101, 95, 104, 97, 115, 104>>,
     prev_receipt_hash |-> <<112, 114, 101, 118, 95, 114, 101, 99, 101, 105, 112, 116, 95, 104, 97, 115, 104>>,
     TEE |-> <<84, 69, 69>>,
     SIGNED_METER |-> <<83, 73, 71, 78, 69, 68, 95, 77, 69, 84, 69, 82>>,
     ORACLE |-> <<79, 82, 65, 67, 76, 69>>,
     SELF_REPORT |-> <<83, 69, 76, 70, 95, 82, 69, 80, 79, 82, 84>>,
     pk_signer |-> <<112, 107, 95, 115, 105, 103, 110, 101, 114>>,
     pk_other |-> <<112, 107, 95, 111, 116, 104, 101, 114>>]

\* a variant of msr_content: the price is left out of what is hashed
msr_content_without_price(msr) ==
    LET fields == SelectSeq(MsrFields, LAMBDA f : f # "price_usd_micros")
    IN  JDict([i \in 1..Len(fields) |-> FieldText[fields[i]]],
              [i \in 1..Len(fields) |-> msr[fields[i]]])

\* msr.to_dict() without signature_ed25519
msr_content(msr) ==
    JDict([i \in 1..Len(MsrFields) |-> FieldText[MsrFields[i]]],
          [i \in 1..Len(MsrFields) |-> msr[MsrFields[i]]])

\* timestamp_ms or int(time.time() * 1000): None and 0 give the clock
timestamp_or_now(timestamp_ms, now) ==
    IF timestamp_ms = JNull \/ timestamp_ms = JInt(FALSE, <<48>>) THEN int_json(now)
    ELSE timestamp_ms

\* make_msr, the strings that play no part in a check held fixed
make_msr(payer_agent_id, payee_agent_id, units, price_usd_micros, private_key, timestamp_ms, now) ==
    LET msr_data ==
            [msr_version |-> Version01,
             payer_agent_id |-> payer_agent_id,
             payee_agent_id |-> payee_agent_id,
             resource_type |-> JStr(<<114>>),
             units |-> units,
             unit_type |-> JStr(<<117>>),
             price_usd_micros |-> price_usd_micros,
             timestamp_ms |-> timestamp_or_now(timestamp_ms, now),
             nonce |-> JStr(<<110>>),
             scope_hash |-> JStr(<<115>>),
             request_hash |-> JStr(<<113>>),
             response_hash |-> JStr(<<112>>),
             prev_receipt_hash |-> JNull,
             signature_ed25519 |-> sign(NoHash, "sk_none")]
        canonical_bytes == canonicalize_bytes(msr_content(msr_data))
        msr_hash == hash_bytes(canonical_bytes.out)
    IN  [msr_data EXCEPT !.signature_ed25519 = sign(msr_hash, private_key)]

\* get_msr_hash of a whole MSR: the hash, or the exception of the codec
msr_hash_of(msr) == canonicalize_bytes(msr_content(msr))

verify_msr(msr, public_key) ==
    IF msr.msr_version # Version01 THEN Verdict(FALSE, NoHash, "Invalid msr_version")
    ELSE IF msr.payer_agent_id = msr.payee_agent_id
         THEN Verdict(FALSE, NoHash, "Payer and payee cannot be same")
    ELSE IF le_zero(msr.units) THEN Verdict(FALSE, NoHash, "Units must be positive")
    ELSE IF lt_zero(msr.price_usd_micros)
         THEN Verdict(FALSE, NoHash, "Price cannot be negative")
    ELSE IF le_zero(msr.timestamp_ms) THEN Verdict(FALSE, NoHash, "Invalid timestamp")
    ELSE LET canonical == msr_hash_of(msr)
             msr_hash == hash_bytes(canonical.out)
         IN  IF ~canonical.ok THEN Propagated(canonical.error)
             ELSE IF ~verify(msr_hash, msr.signature_ed25519, public_key)
                  THEN Verdict(FALSE, msr_hash, "Invalid signature")
                  ELSE Verdict(TRUE, msr_hash, "None")

(***************************************************************************)
(* fc.py                                                                   *)
(***************************************************************************)
\* hexdigest: the text of a digest, as it stands in a dictionary
hexdigest(h) == JStr(h.blake3)

\* DeliveryWindow.to_dict and Penalty.to_dict
window_to_dict(delivery_window) ==
    JDict(<<FieldText.start_ms, FieldText.end_ms>>,
          <<delivery_window.start_ms, delivery_window.end_ms>>)

penalty_to_dict(penalty) ==
    JDict(<<FieldText.penalty_usd_micros, FieldText.rule_hash>>,
          <<penalty.penalty_usd_micros, penalty.rule_hash>>)

\* a variant of commitment_data: the units are left out of the commitment
commitment_data_without_units(issuer_agent_id, counterparty_agent_id, resource_type, units, delivery_window) ==
    JDict(<<FieldText.issuer, FieldText.counterparty, FieldText.resource, FieldText.window>>,
          <<issuer_agent_id, counterparty_agent_id, resource_type,
            window_to_dict(delivery_window)>>)

\* data of compute_commitment_hash
commitment_data(issuer_agent_id, counterparty_agent_id, resource_type, units, delivery_window) ==
    JDict(<<FieldText.issuer, FieldText.counterparty, FieldText.resource,
            FieldText.units, FieldText.window>>,
          <<issuer_agent_id, counterparty_agent_id, resource_type, units,
            window_to_dict(delivery_window)>>)

\* compute_commitment_hash before hash_bytes: the bytes, or the exception
commitment_bytes(fc) ==
    canonicalize_bytes(commitment_data(fc.issuer_agent_id, fc.counterparty_agent_id,
                                       fc.resource_type, fc.units, fc.delivery_window))

compute_commitment_hash(fc) == hash_bytes(commitment_bytes(fc).out)

\* fc.to_dict() without signature_ed25519
fc_content(fc) ==
    JDict(<<FieldText.fc_version, FieldText.issuer_agent_id,
            FieldText.counterparty_agent_id, FieldText.resource_type, FieldText.units,
            FieldText.unit_type, FieldText.delivery_window, FieldText.penalty,
            FieldText.collateral, FieldText.commitment_hash>>,
          <<fc.fc_version, fc.issuer_agent_id, fc.counterparty_agent_id,
            fc.resource_type, fc.units, fc.unit_type,
            window_to_dict(fc.delivery_window), penalty_to_dict(fc.penalty),
            fc.collateral, hexdigest(fc.commitment_hash)>>)

\* make_fc, the strings that play no part in a check held fixed
make_fc(issuer_agent_id, counterparty_agent_id, units, delivery_window, penalty, private_key) ==
    LET fc_args ==
            [fc_version |-> Version01,
             issuer_agent_id |-> issuer_agent_id,
             counterparty_agent_id |-> counterparty_agent_id,
             resource_type |-> JStr(<<114>>),
             units |-> units,
             unit_type |-> JStr(<<117>>),
             delivery_window |-> delivery_window,
             penalty |-> penalty,
             collateral |-> JNull,
             commitment_hash |-> NoHash,
             signature_ed25519 |-> sign(NoHash, "sk_none")]
        fc_data == [fc_args EXCEPT !.commitment_hash = compute_commitment_hash(fc_args)]
        fc_hash == hash_bytes(canonicalize_bytes(fc_content(fc_data)).out)
    IN  [fc_data EXCEPT !.signature_ed25519 = sign(fc_hash, private_key)]

verify_fc(fc, public_key) ==
    IF fc.fc_version # Version01 THEN Verdict(FALSE, NoHash, "Invalid fc_version")
    ELSE IF fc.issuer_agent_id = fc.counterparty_agent_id
         THEN Verdict(FALSE, NoHash, "Issuer and counterparty cannot be same")
    ELSE IF le_zero(fc.units) THEN Verdict(FALSE, NoHash, "Units must be positive")
    ELSE IF ~int_lt(fc.delivery_window.start_ms, fc.delivery_window.end_ms)
         THEN Verdict(FALSE, NoHash, "Invalid delivery window")
    ELSE IF le_zero(fc.penalty.penalty_usd_micros)
         THEN Verdict(FALSE, NoHash, "Penalty must be positive")
    ELSE IF ~commitment_bytes(fc).ok THEN Propagated(commitment_bytes(fc).error)
    ELSE IF fc.commitment_hash # compute_commitment_hash(fc)
         THEN Verdict(FALSE, NoHash, "Invalid commitment hash")
    ELSE LET canonical == canonicalize_bytes(fc_content(fc))
             fc_hash == hash_bytes(canonical.out)
         IN  IF ~canonical.ok THEN Propagated(canonical.error)
             ELSE IF ~verify(fc_hash, fc.signature_ed25519, public_key)
                  THEN Verdict(FALSE, fc_hash, "Invalid signature")
                  ELSE Verdict(TRUE, fc_hash, "None")

(***************************************************************************)
(* mbs.py                                                                  *)
(***************************************************************************)
MAX_SOLVENCY == 999999

RatioScale == 10000

\* a // b of Python, b # 0
floor_div(a, b) == IF b > 0 THEN a \div b ELSE (0 - a) \div (0 - b)

\* sum(x.amount for x in items)
total_amount(items) == SumSeq([i \in 1..Len(items) |-> items[i].amount])

\* a variant of compute_solvency_ratio: no liabilities give a ratio of 0
compute_solvency_ratio_zero(assets_held, liabilities) ==
    LET total_assets == total_amount(assets_held)
        total_liabilities == total_amount(liabilities)
    IN  IF total_liabilities = 0 THEN 0
        ELSE floor_div(total_assets * RatioScale, total_liabilities)

compute_solvency_ratio(assets_held, liabilities) ==
    LET total_assets == total_amount(assets_held)
        total_liabilities == total_amount(liabilities)
    IN  IF total_liabilities = 0 THEN MAX_SOLVENCY
        ELSE floor_div(total_assets * RatioScale, total_liabilities)

\* [a.to_dict() for a in assets] and [l.to_dict() for l in liabilities]
assets_to_dicts(assets_held) ==
    JList([i \in 1..Len(assets_held) |->
             JDict(<<FieldText.asset_type, FieldText.amount>>,
                   <<assets_held[i].asset_type, int_json(assets_held[i].amount)>>)])

liabilities_to_dicts(liabilities) ==
    JList([i \in 1..Len(liabilities) |->
             JDict(<<FieldText.liability_type, FieldText.amount>>,
                   <<liabilities[i].liability_type, int_json(liabilities[i].amount)>>)])

\* mbs.to_dict() without signature_ed25519
mbs_content(mbs) ==
    JDict(<<FieldText.mbs_version, FieldText.agent_id, FieldText.assets,
            FieldText.liabilities, FieldText.burn_rate_usd_micros_per_s,
            FieldText.solvency_ratio, FieldText.timestamp_ms>>,
          <<mbs.mbs_version, mbs.agent_id, assets_to_dicts(mbs.assets),
            liabilities_to_dicts(mbs.liabilities), mbs.burn_rate_usd_micros_per_s,
            int_json(mbs.solvency_ratio), mbs.timestamp_ms>>)

compute_mbs(agent_id, assets_held, liabilities, burn_rate_usd_micros_per_s, private_key, timestamp_ms, now) ==
    LET mbs_data ==
            [mbs_version |-> Version01,
             agent_id |-> agent_id,
             assets |-> assets_held,
             liabilities |-> liabilities,
             burn_rate_usd_micros_per_s |-> burn_rate_usd_micros_per_s,
             solvency_ratio |-> compute_solvency_ratio(assets_held, liabilities),
             timestamp_ms |-> timestamp_or_now(timestamp_ms, now),
             signature_ed25519 |-> sign(NoHash, "sk_none")]
        mbs_hash == hash_bytes(canonicalize_bytes(mbs_content(mbs_data)).out)
    IN  [mbs_data EXCEPT !.signature_ed25519 = sign(mbs_hash, private_key)]

\* verify_mbs returns (valid, error): the hash of the verdict is not part of it
verify_mbs(mbs, public_key) ==
    IF mbs.mbs_version # Version01 THEN Verdict(FALSE, NoHash, "Invalid mbs_version")
    ELSE IF \E i \in 1..Len(mbs.assets) : mbs.assets[i].amount < 0
         THEN Verdict(FALSE, NoHash, "Asset amount cannot be negative")
    ELSE IF \E i \in 1..Len(mbs.liabilities) : mbs.liabilities[i].amount < 0
         THEN Verdict(FALSE, NoHash, "Liability amount cannot be negative")
    ELSE IF lt_zero(mbs.burn_rate_usd_micros_per_s)
         THEN Verdict(FALSE, NoHash, "Burn rate cannot be negative")
    ELSE IF mbs.solvency_ratio # compute_solvency_ratio(mbs.assets, mbs.liabilities)
         THEN Verdict(FALSE, NoHash, "Invalid solvency ratio")
    ELSE LET canonical == canonicalize_bytes(mbs_content(mbs))
             mbs_hash == hash_bytes(canonical.out)
         IN  IF ~canonical.ok THEN Propagated(canonical.error)
             ELSE IF ~verify(mbs_hash, mbs.signature_ed25519, public_key)
                  THEN Verdict(FALSE, NoHash, "Invalid signature")
                  ELSE Verdict(TRUE, NoHash, "None")

(***************************************************************************)
(* netting.py : make_ian and verify_ian                                    *)
(***************************************************************************)
\* [o.to_dict() for o in obligations]
obligations_to_dicts(obligations) ==
    JList([i \in 1..Len(obligations) |->
             JDict(<<FieldText.from, FieldText.to, FieldText.amount_usd_micros>>,
                   <<JStr(obligations[i].from_agent), JStr(obligations[i].to_agent),
                     int_json(obligations[i].amount_usd_micros)>>)])

\* a list of strings as a value of the codec
strs_to_list(strs) == JList([i \in 1..Len(strs) |-> JStr(strs[i])])

\* compute_netting_hash before hash_bytes: the bytes, or the exception
netting_bytes(epoch_id, receipt_hashes, obligations) ==
    canonicalize_bytes(
        JDict(<<FieldText.epoch, FieldText.receipts, FieldText.obligations>>,
              <<epoch_id, strs_to_list(sorted_strs(receipt_hashes)),
                obligations_to_dicts(obligations)>>))

compute_netting_hash(epoch_id, receipt_hashes, obligations) ==
    hash_bytes(netting_bytes(epoch_id, receipt_hashes, obligations).out)

\* ian.to_dict() without signature_ed25519
ian_content(ian) ==
    JDict(<<FieldText.ian_version, FieldText.epoch_id, FieldText.participants,
            FieldText.included_receipt_hashes, FieldText.net_obligations,
            FieldText.netting_hash>>,
          <<ian.ian_version, ian.epoch_id, strs_to_list(ian.participants),
            strs_to_list(ian.included_receipt_hashes),
            obligations_to_dicts(ian.net_obligations), hexdigest(ian.netting_hash)>>)

make_ian(epoch_id, rs, kernel_private_key) ==
    LET result == net_receipts(rs)
        netting_hash ==
            compute_netting_hash(epoch_id, result.receipt_hashes, result.obligations)
        ian_data ==
            [ian_version |-> Version01,
             epoch_id |-> epoch_id,
             participants |-> result.participants,
             included_receipt_hashes |-> result.receipt_hashes,
             net_obligations |-> result.obligations,
             netting_hash |-> netting_hash,
             signature_ed25519 |-> sign(NoHash, "sk_none")]
        ian_hash == hash_bytes(canonicalize_bytes(ian_content(ian_data)).out)
    IN  [ian_data EXCEPT !.signature_ed25519 = sign(ian_hash, kernel_private_key)]

\* a variant of obligation_error: the amount is checked first
obligation_error_amount_first(ian, obl) ==
    LET participant(agent) ==
            \E i \in 1..Len(ian.participants) : ian.participants[i] = agent
    IN  IF obl.amount_usd_micros <= 0 THEN "Obligation amount must be positive"
        ELSE IF ~participant(obl.from_agent) THEN "Unknown participant"
        ELSE IF ~participant(obl.to_agent) THEN "Unknown participant"
        ELSE IF obl.from_agent = obl.to_agent THEN "Self-obligation not allowed"
        ELSE "None"

\* the checks of one obligation, in their order
obligation_error(ian, obl) ==
    LET participant(agent) ==
            \E i \in 1..Len(ian.participants) : ian.participants[i] = agent
    IN  IF ~participant(obl.from_agent) THEN "Unknown participant"
        ELSE IF ~participant(obl.to_agent) THEN "Unknown participant"
        ELSE IF obl.from_agent = obl.to_agent THEN "Self-obligation not allowed"
        ELSE IF obl.amount_usd_micros <= 0 THEN "Obligation amount must be positive"
        ELSE "None"

\* verify_ian returns (valid, error): the hash of the verdict is not part of it
verify_ian(ian, kernel_public_key) ==
    LET failing == { i \in 1..Len(ian.net_obligations) :
                       obligation_error(ian, ian.net_obligations[i]) # "None" }
        first == CHOOSE i \in failing : \A j \in failing : i <= j
        expected == netting_bytes(ian.epoch_id, ian.included_receipt_hashes,
                                  ian.net_obligations)
    IN  IF ian.ian_version # Version01 THEN Verdict(FALSE, NoHash, "Invalid ian_version")
        ELSE IF failing # {}
             THEN Verdict(FALSE, NoHash, obligation_error(ian, ian.net_obligations[first]))
        ELSE IF ~expected.ok THEN Propagated(expected.error)
        ELSE IF ian.netting_hash # hash_bytes(expected.out)
             THEN Verdict(FALSE, NoHash, "Invalid netting hash")
        ELSE LET canonical == canonicalize_bytes(ian_content(ian))
                 ian_hash == hash_bytes(canonical.out)
             IN  IF ~canonical.ok THEN Propagated(canonical.error)
                 ELSE IF ~verify(ian_hash, ian.signature_ed25519, kernel_public_key)
                      THEN Verdict(FALSE, NoHash, "Invalid kernel signature")
                      ELSE Verdict(TRUE, NoHash, "None")

(***************************************************************************)
(* amr.py.  An agent id is the agent's public key.                         *)
(***************************************************************************)
AttestationMethods == {"TEE", "SIGNED_METER", "ORACLE", "SELF_REPORT"}

get_confidence_bps(method) ==
    CASE method = "TEE" -> 9999
      [] method = "SIGNED_METER" -> 9500
      [] method = "ORACLE" -> 9000
      [] OTHER -> 5000

\* no consumer_signature: None
NoSignature == [signed |-> NoHash, by |-> "None"]

\* the dictionary make_amr hashes: record_id and amr_hash are ""
amr_without_sig(amr) ==
    JDict(<<FieldText.amr_version, FieldText.record_id, FieldText.consumer_agent_id,
            FieldText.provider_agent_id, FieldText.resource_class,
            FieldText.resource_subtype, FieldText.metering, FieldText.attestation,
            FieldText.pricing, FieldText.context, FieldText.timestamp_ms,
            FieldText.amr_hash>>,
          <<amr.amr_version, JStr(<<>>), JStr(FieldText[amr.consumer_agent_id]),
            JStr(FieldText[amr.provider_agent_id]), amr.resource_class,
            amr.resource_subtype,
            JDict(<<FieldText.quantity, FieldText.unit, FieldText.start_ms,
                    FieldText.end_ms, FieldText.duration_ms>>,
                  <<int_json(amr.metering.quantity), amr.metering.unit,
                    int_json(amr.metering.start_ms), int_json(amr.metering.end_ms),
                    int_json(amr.metering.duration_ms)>>),
            JDict(<<FieldText.method, FieldText.confidence_bps>>,
                  <<JStr(FieldText[amr.attestation.method]),
                    int_json(amr.attestation.confidence_bps)>>),
            JDict(<<FieldText.rate_micros_per_unit, FieldText.total_micros,
                    FieldText.currency>>,
                  <<int_json(amr.pricing.rate_micros_per_unit),
                    int_json(amr.pricing.total_micros), amr.pricing.currency>>),
            JDict(<<FieldText.request_hash, FieldText.response_hash>>,
                  <<amr.context.request_hash, amr.context.response_hash>>),
            int_json(amr.timestamp_ms), JStr(<<>>)>>)

\* make_amr without the optional arguments, the strings that play no part
\* in a check held fixed
make_amr(consumer_agent_id, provider_agent_id, quantity, start_ms, end_ms, attestation_method, rate_micros_per_unit, provider_private_key, now) ==
    LET duration_ms == end_ms - start_ms
        total_micros == quantity * rate_micros_per_unit
        amr_data ==
            [amr_version |-> Version01,
             record_id |-> NoHash,
             consumer_agent_id |-> consumer_agent_id,
             provider_agent_id |-> provider_agent_id,
             resource_class |-> JStr(FieldText.COMPUTE),
             resource_subtype |-> JStr(<<103>>),
             metering |-> [quantity |-> quantity, unit |-> JStr(<<117>>),
                           start_ms |-> start_ms, end_ms |-> end_ms,
                           duration_ms |-> duration_ms],
             attestation |-> [method |-> attestation_method,
                              confidence_bps |-> get_confidence_bps(attestation_method)],
             pricing |-> [rate_micros_per_unit |-> rate_micros_per_unit,
                          total_micros |-> total_micros,
                          currency |-> JStr(FieldText.USD)],
             context |-> [request_hash |-> JStr(<<113>>), response_hash |-> JStr(<<112>>)],
             timestamp_ms |-> now,
             amr_hash |-> NoHash,
             provider_signature |-> NoSignature,
             consumer_signature |-> NoSignature]
        content_hash == hash_bytes(canonicalize_bytes(amr_without_sig(amr_data)).out)
    IN  [amr_data EXCEPT !.record_id = content_hash,
                         !.amr_hash = content_hash,
                         !.provider_signature = sign(content_hash, provider_private_key)]

\* a variant of cosign_amr: the record is built again, and its hash with it
cosign_amr_rebuilt(amr, consumer_private_key) ==
    LET amr_hash == hash_bytes(canonicalize_bytes(amr_without_sig(amr)).out)
    IN  [amr EXCEPT !.record_id = amr_hash,
                    !.amr_hash = amr_hash,
                    !.consumer_signature = sign(amr_hash, consumer_private_key)]

\* the AMR after cosign_amr, which writes to the AMR it is given
cosign_amr(amr, consumer_private_key) ==
    [amr EXCEPT !.consumer_signature = sign(amr.amr_hash, consumer_private_key)]

verify_amr(amr) ==
    [provider_valid |-> verify(amr.amr_hash, amr.provider_signature, amr.provider_agent_id),
     consumer_valid |->
         IF amr.consumer_signature = NoSignature THEN "None"
         ELSE IF verify(amr.amr_hash, amr.consumer_signature, amr.consumer_agent_id)
              THEN "True" ELSE "False"]

(***************************************************************************)
(* dbp.py : verify_dbp                                                     *)
(***************************************************************************)
verify_dbp(d) ==
    verify(hash_bytes(get_dbp_content(d)), d.signature_ed25519, d.arbiter_agent_id)

(***************************************************************************)
(* The record state machine.  A producer issues one record; a field of it  *)
(* may then be replaced, the signature left as it was; the signer may sign *)
(* the record again as it stands; the record is handed to its verifier.    *)
(***************************************************************************)
NoRecord == [signature_ed25519 |-> NoSignature]

NoVerdict == [valid |-> FALSE, hash |-> NoHash, error |-> "not verified", raised |-> FALSE]

Parties == { JStr(<<97>>), JStr(<<98>>) }
Units == { int_json(0), int_json(1) }
Timestamps == { JNull, int_json(7), int_json(0 - 1) }
Windows == { [start_ms |-> int_json(1), end_ms |-> int_json(2)],
             [start_ms |-> int_json(2), end_ms |-> int_json(2)] }
Penalties == { [penalty_usd_micros |-> int_json(0), rule_hash |-> JStr(<<114>>)],
               [penalty_usd_micros |-> int_json(3), rule_hash |-> JStr(<<114>>)] }
AssetLists == { <<>>,
                << [asset_type |-> JStr(<<117>>), amount |-> 22] >>,
                << [asset_type |-> JStr(<<117>>), amount |-> 0 - 5] >>,
                << [asset_type |-> JStr(<<117>>), amount |-> 700] >>,
                << [asset_type |-> JStr(<<117>>), amount |-> 22],
                   [asset_type |-> JStr(<<99>>), amount |-> 5] >> }
LiabilityLists == { <<>>,
                    << [liability_type |-> JStr(<<111>>), amount |-> 7] >>,
                    << [liability_type |-> JStr(<<111>>), amount |-> 0 - 7] >>,
                    << [liability_type |-> JStr(<<111>>), amount |-> 7],
                       [liability_type |-> JStr(<<100>>), amount |-> 15] >> }
BurnRates == { int_json(0), int_json(3), int_json(0 - 1) }
\* receipts between "a" and "b", also from an agent to itself and of price 0
ReceiptPool ==
    [payer_agent_id : { <<97>>, <<98>> }, payee_agent_id : { <<97>>, <<98>> },
     price_usd_micros : {0, 7, 15}]
ReceiptLists ==
    { <<>>,
      << [payer_agent_id |-> <<97>>, payee_agent_id |-> <<98>>, price_usd_micros |-> 7],
         [payer_agent_id |-> <<98>>, payee_agent_id |-> <<99>>, price_usd_micros |-> 15] >> }
    \cup { <<r>> : r \in ReceiptPool }
    \cup { <<r1, r2>> : r1, r2 \in ReceiptPool }
Quantities == {0, 3}
CreditorLists ==
    { << [agent_id |-> <<97>>, amount_micros |-> 15, priority |-> 1] >>,
      << [agent_id |-> <<97>>, amount_micros |-> 15, priority |-> 1],
         [agent_id |-> <<98>>, amount_micros |-> 7, priority |-> 2] >> }
AssetHoldings == { << [asset_type |-> <<99>>, value_micros |-> 22] >> }

RecInit ==
    /\ rec_pc = "none"
    /\ rec_kind = "none"
    /\ rec = NoRecord
    /\ rec_made = NoRecord
    /\ rec_out = NoVerdict

\* make_msr returns a record
IssueMsr ==
    /\ rec_pc = "none"
    /\ \E payer \in Parties, payee \in Parties, units \in Units, timestamp_ms \in Timestamps :
          rec' = make_msr(payer, payee, units, int_json(5), SignerPrivateKey,
                          timestamp_ms, 1)
    /\ rec_made' = rec'
    /\ rec_kind' = "msr"
    /\ rec_pc' = "made"
    /\ UNCHANGED rec_out
    /\ UNCHANGED <<net_vars, in_vars, dist_vars, dbp_vars, canon_vars, more_vars>>

\* make_fc returns a record
IssueFc ==
    /\ rec_pc = "none"
    /\ \E issuer \in Parties, counterparty \in Parties, units \in Units,
          delivery_window \in Windows, penalty \in Penalties :
          rec' = make_fc(issuer, counterparty, units, delivery_window, penalty,
                         SignerPrivateKey)
    /\ rec_made' = rec'
    /\ rec_kind' = "fc"
    /\ rec_pc' = "made"
    /\ UNCHANGED rec_out
    /\ UNCHANGED <<net_vars, in_vars, dist_vars, dbp_vars, canon_vars, more_vars>>

\* compute_mbs returns a record
IssueMbs ==
    /\ rec_pc = "none"
    /\ \E assets_held \in AssetLists, liabilities \in LiabilityLists, burn \in BurnRates :
          rec' = compute_mbs(JStr(<<97>>), assets_held, liabilities, burn,
                             SignerPrivateKey, JNull, 1)
    /\ rec_made' = rec'
    /\ rec_kind' = "mbs"
    /\ rec_pc' = "made"
    /\ UNCHANGED rec_out
    /\ UNCHANGED <<net_vars, in_vars, dist_vars, dbp_vars, canon_vars, more_vars>>

\* make_ian returns a record
IssueIan ==
    /\ rec_pc = "none"
    /\ \E rs \in ReceiptLists : rec' = make_ian(JStr(<<101>>), rs, SignerPrivateKey)
    /\ rec_made' = rec'
    /\ rec_kind' = "ian"
    /\ rec_pc' = "made"
    /\ UNCHANGED rec_out
    /\ UNCHANGED <<net_vars, in_vars, dist_vars, dbp_vars, canon_vars, more_vars>>

\* make_amr returns a record: the provider signs what the consumer used
IssueAmr ==
    /\ rec_pc = "none"
    /\ \E quantity \in Quantities, method \in AttestationMethods :
          rec' = make_amr(OtherPublicKey, SignerPublicKey, quantity, 1, 4, method, 2,
                          SignerPrivateKey, 1)
    /\ rec_made' = rec'
    /\ rec_kind' = "amr"
    /\ rec_pc' = "made"
    /\ UNCHANGED rec_out
    /\ UNCHANGED <<net_vars, in_vars, dist_vars, dbp_vars, canon_vars, more_vars>>

\* make_dbp returns a record
IssueDbp ==
    /\ rec_pc = "none"
    /\ \E cs \in CreditorLists, as \in AssetHoldings, method \in Methods :
          rec' = make_dbp(1, cs, as, method, ArbiterPublicKey, ArbiterPrivateKey)
    /\ rec_made' = rec'
    /\ rec_kind' = "dbp"
    /\ rec_pc' = "made"
    /\ UNCHANGED rec_out
    /\ UNCHANGED <<net_vars, in_vars, dist_vars, dbp_vars, canon_vars, more_vars>>

\* the records that differ from r in one field, every signature left alone
TamperedMsr(r) ==
    { [r EXCEPT !.msr_version = Version02] }
    \cup { [r EXCEPT !.payer_agent_id = v] : v \in Parties \cup { JStr(<<99>>) } }
    \cup { [r EXCEPT !.payee_agent_id = v] : v \in Parties \cup { JStr(<<99>>) } }
    \cup { [r EXCEPT !.resource_type = JStr(<<120>>)],
           [r EXCEPT !.unit_type = JStr(<<120>>)],
           [r EXCEPT !.nonce = JStr(<<120>>)],
           [r EXCEPT !.scope_hash = JStr(<<120>>)],
           [r EXCEPT !.request_hash = JStr(<<120>>)],
           [r EXCEPT !.response_hash = JStr(<<120>>)],
           [r EXCEPT !.prev_receipt_hash = JStr(<<120>>)] }
    \cup { [r EXCEPT !.units = v] : v \in { int_json(0), int_json(2), OnePointFive, Unsafe } }
    \cup { [r EXCEPT !.price_usd_micros = v] :
             v \in { int_json(6), int_json(0 - 1), OnePointFive, Unsafe } }
    \cup { [r EXCEPT !.timestamp_ms = v] : v \in { int_json(8), int_json(0), OnePointFive } }

TamperedFc(r) ==
    { [r EXCEPT !.fc_version = Version02],
      [r EXCEPT !.issuer_agent_id = JStr(<<99>>)],
      [r EXCEPT !.counterparty_agent_id = JStr(<<99>>)],
      [r EXCEPT !.collateral = int_json(5)],
      [r EXCEPT !.collateral = OnePointFive],
      [r EXCEPT !.commitment_hash = NoHash],
      [r EXCEPT !.delivery_window.end_ms = int_json(9)],
      [r EXCEPT !.delivery_window.start_ms = int_json(0)],
      [r EXCEPT !.resource_type = JStr(<<120>>)],
      [r EXCEPT !.unit_type = JStr(<<120>>)],
      [r EXCEPT !.penalty.rule_hash = JStr(<<120>>)],
      [r EXCEPT !.penalty.penalty_usd_micros = int_json(4)] }
    \cup { [r EXCEPT !.units = v] : v \in { int_json(0), int_json(2), OnePointFive, Unsafe } }

TamperedMbs(r) ==
    { [r EXCEPT !.mbs_version = Version02],
      [r EXCEPT !.agent_id = JStr(<<99>>)],
      [r EXCEPT !.timestamp_ms = OnePointFive],
      [r EXCEPT !.assets = Append(r.assets, [asset_type |-> JStr(<<120>>), amount |-> 1])] }
    \cup { [r EXCEPT !.solvency_ratio = v] :
             v \in { 0, MAX_SOLVENCY, r.solvency_ratio + 1, r.solvency_ratio - 1 } }
    \cup { [r EXCEPT !.burn_rate_usd_micros_per_s = v] :
             v \in { int_json(4), OnePointFive, Unsafe } }

TamperedIan(r) ==
    { [r EXCEPT !.ian_version = Version02],
      [r EXCEPT !.epoch_id = JStr(<<102>>)],
      [r EXCEPT !.epoch_id = OnePointFive],
      [r EXCEPT !.netting_hash = NoHash],
      [r EXCEPT !.participants = <<>>],
      [r EXCEPT !.included_receipt_hashes = <<>>],
      [r EXCEPT !.net_obligations =
           [i \in 1..Len(r.net_obligations) |->
              [r.net_obligations[i] EXCEPT !.amount_usd_micros = @ + 1]]],
      [r EXCEPT !.net_obligations =
           [i \in 1..Len(r.net_obligations) |->
              [r.net_obligations[i] EXCEPT !.to_agent = r.net_obligations[i].from_agent]]],
      [r EXCEPT !.net_obligations =
           [i \in 1..Len(r.net_obligations) |->
              IF i = 1 THEN [r.net_obligations[i] EXCEPT !.amount_usd_micros = 0]
                       ELSE [r.net_obligations[i] EXCEPT !.from_agent = <<122>>]]],
      [r EXCEPT !.net_obligations =
           [i \in 1..Len(r.net_obligations) |->
              [r.net_obligations[i] EXCEPT !.amount_usd_micros = 0,
                                           !.to_agent = <<122>>]]] }

TamperedAmr(r) ==
    { [r EXCEPT !.amr_version = Version02],
      [r EXCEPT !.consumer_agent_id = SignerPublicKey],
      [r EXCEPT !.provider_agent_id = OtherPublicKey],
      [r EXCEPT !.metering.quantity = @ + 1],
      [r EXCEPT !.pricing.total_micros = @ + 1],
      [r EXCEPT !.pricing.rate_micros_per_unit = @ + 1],
      [r EXCEPT !.attestation.confidence_bps = BpsScale],
      [r EXCEPT !.timestamp_ms = @ + 1],
      [r EXCEPT !.amr_hash = NoHash] }

TamperedDbp(r) ==
    { [r EXCEPT !.dbp_version = "0.2"],
      [r EXCEPT !.dbp_hash = hash_bytes(NoContent)],
      [r EXCEPT !.default_id = hash_bytes(NoContent)],
      [r EXCEPT !.recovery_rate_bps = @ + 1],
      [r EXCEPT !.timestamp_ms = @ + 1] }

Tampered(kind, r) ==
    CASE kind = "msr" -> TamperedMsr(r)
      [] kind = "fc" -> TamperedFc(r)
      [] kind = "mbs" -> TamperedMbs(r)
      [] kind = "ian" -> TamperedIan(r)
      [] kind = "amr" -> TamperedAmr(r)
      [] kind = "dbp" -> TamperedDbp(r)

Tamper ==
    /\ rec_pc = "made"
    /\ rec_pc' = "tampered"
    /\ \E r \in Tampered(rec_kind, rec) \ {rec} : rec' = r
    /\ UNCHANGED <<rec_kind, rec_made, rec_out>>
    /\ UNCHANGED <<net_vars, in_vars, dist_vars, dbp_vars, canon_vars, more_vars>>

\* the bytes the signer of a record signs the digest of
SignedBytes(kind, r) ==
    CASE kind = "msr" -> msr_hash_of(r)
      [] kind = "fc" -> canonicalize_bytes(fc_content(r))
      [] kind = "mbs" -> canonicalize_bytes(mbs_content(r))
      [] kind = "ian" -> canonicalize_bytes(ian_content(r))
      [] kind = "amr" -> canonicalize_bytes(amr_without_sig(r))
      [] kind = "dbp" -> Returned(get_dbp_content(r))

\* the record r signed by its signer as it stands
Resigned(kind, r) ==
    LET content_hash == hash_bytes(SignedBytes(kind, r).out)
    IN  CASE kind = "amr" ->
               [r EXCEPT !.record_id = content_hash,
                         !.amr_hash = content_hash,
                         !.provider_signature = sign(content_hash, SignerPrivateKey)]
          [] kind = "dbp" ->
               [r EXCEPT !.signature_ed25519 = sign(content_hash, ArbiterPrivateKey)]
          [] OTHER ->
               [r EXCEPT !.signature_ed25519 = sign(content_hash, SignerPrivateKey)]

SignAgain ==
    /\ rec_pc = "tampered"
    /\ SignedBytes(rec_kind, rec).ok
    /\ rec_pc' = "resigned"
    /\ rec' = Resigned(rec_kind, rec)
    /\ UNCHANGED <<rec_kind, rec_made, rec_out>>
    /\ UNCHANGED <<net_vars, in_vars, dist_vars, dbp_vars, canon_vars, more_vars>>

\* what the verifiers of a kind say of the record r
Verified(kind, r) ==
    CASE kind = "msr" -> verify_msr(r, SignerPublicKey)
      [] kind = "fc" -> verify_fc(r, SignerPublicKey)
      [] kind = "mbs" -> verify_mbs(r, SignerPublicKey)
      [] kind = "ian" -> verify_ian(r, SignerPublicKey)
      [] kind = "amr" -> verify_amr(r)
      [] kind = "dbp" -> [verify_dbp |-> verify_dbp(r),
                          resolve_default |-> resolve_default(r, ArbiterPublicKey)]

\* the consumer, or the provider in its place, co-signs the AMR as it stands
Cosign ==
    /\ rec_kind = "amr"
    /\ rec_pc \in {"made", "tampered", "resigned"}
    /\ rec_pc' = "cosigned"
    /\ \E consumer_private_key \in {OtherPrivateKey, SignerPrivateKey} :
          rec' = cosign_amr(rec, consumer_private_key)
    /\ UNCHANGED <<rec_kind, rec_made, rec_out>>
    /\ UNCHANGED <<net_vars, in_vars, dist_vars, dbp_vars, canon_vars, more_vars>>

(***************************************************************************)
(* mbs.py : compute_runway_seconds; dbp.py : should_auto_default.  A       *)
(* runway is float('inf') (inf), or the float f with the sign neg.         *)
(***************************************************************************)
\* the int of its decimal digits, and of a value of the codec
RECURSIVE digits_value(_)
digits_value(digits) ==
    IF digits = <<>> THEN 0
    ELSE 10 * digits_value(SubSeq(digits, 1, Len(digits) - 1)) + (digits[Len(digits)] - 48)

int_value(v) == IF v.n = 1 THEN 0 - digits_value(v.s) ELSE digits_value(v.s)

Infinite == [inf |-> TRUE, neg |-> FALSE, f |-> ZeroFloat]

Finite(neg, f) == [inf |-> FALSE, neg |-> neg /\ f # ZeroFloat, f |-> f]

\* a / b of two ints, b # 0
int_truediv(a, b) ==
    Finite((a < 0) # (b < 0),
           float_div(IF a < 0 THEN 0 - a ELSE a, IF b < 0 THEN 0 - b ELSE b))

\* max(0.0, x)
max_zero(x) == IF x.neg THEN Finite(FALSE, ZeroFloat) ELSE x

\* x < t of a float x and an int t
float_lt_int(x, t) ==
    IF x.inf THEN FALSE
    ELSE IF x.neg
         THEN t >= 0 \/ float_trunc(x.f) > 0 - t
                     \/ (float_trunc(x.f) = 0 - t /\ x.f # float_div(0 - t, 1))
         ELSE t > 0 /\ float_trunc(x.f) < t

\* a variant of compute_runway_seconds: the quotient as it is
compute_runway_seconds_signed(mbs) ==
    LET net_assets == total_amount(mbs.assets) - total_amount(mbs.liabilities)
        burn == int_value(mbs.burn_rate_usd_micros_per_s)
    IN  IF burn = 0
        THEN (IF net_assets > 0 THEN Infinite ELSE Finite(FALSE, ZeroFloat))
        ELSE int_truediv(net_assets, burn)

compute_runway_seconds(mbs) ==
    LET net_assets == total_amount(mbs.assets) - total_amount(mbs.liabilities)
        burn == int_value(mbs.burn_rate_usd_micros_per_s)
    IN  IF burn = 0
        THEN (IF net_assets > 0 THEN Infinite ELSE Finite(FALSE, ZeroFloat))
        ELSE max_zero(int_truediv(net_assets, burn))

should_auto_default(runway_seconds, threshold_seconds) ==
    float_lt_int(runway_seconds, threshold_seconds)

\* the thresholds of should_auto_default: 0 is the default
Thresholds == {0 - 1, 0, 1, 6}

\* the runway of an MBS whose burn rate is an int of the codec's range, and
\* whether it calls for an automatic default, under each threshold
ComputeRunway ==
    /\ rec_kind = "mbs"
    /\ rec_pc \in {"made", "tampered", "resigned"}
    /\ rec.burn_rate_usd_micros_per_s.t = "int"
    /\ in_safe_range(rec.burn_rate_usd_micros_per_s)
    /\ rec_pc' = "rated"
    /\ rec_out' = [runway |-> compute_runway_seconds(rec),
                   auto |-> [t \in Thresholds |->
                               should_auto_default(compute_runway_seconds(rec), t)]]
    /\ UNCHANGED <<rec_kind, rec, rec_made>>
    /\ UNCHANGED <<net_vars, in_vars, dist_vars, dbp_vars, canon_vars, more_vars>>

Verify ==
    /\ rec_pc \in {"made", "tampered", "resigned", "cosigned"}
    /\ rec_pc' = "verified"
    /\ rec_out' = Verified(rec_kind, rec)
    /\ UNCHANGED <<rec_kind, rec, rec_made>>
    /\ UNCHANGED <<net_vars, in_vars, dist_vars, dbp_vars, canon_vars, more_vars>>

NextRec ==
    \/ IssueMsr \/ IssueFc \/ IssueMbs \/ IssueIan \/ IssueAmr \/ IssueDbp
    \/ Tamper \/ SignAgain \/ Cosign \/ ComputeRunway \/ Verify

(***************************************************************************)
(* Properties of the producers and verifiers of records                    *)
(***************************************************************************)
\* the verifier of a record of the kind has returned or raised
VerifiedKind(kind) == rec_pc = "verified" /\ rec_kind = kind

\* C11: an AMR whose content was changed after make_amr, amr_hash and
\* provider_signature left as they were, is reported with provider_valid false
C11_TamperedAmrInvalid ==
    ( /\ VerifiedKind("amr")
      /\ amr_without_sig(rec) # amr_without_sig(rec_made)
      /\ rec.amr_hash = rec_made.amr_hash
      /\ rec.provider_signature = rec_made.provider_signature )
    => ~rec_out.provider_valid

\* a field of an MSR that is hashed differs from the one make_msr wrote
MsrFieldChanged ==
    \E i \in 1..Len(MsrFields) : rec[MsrFields[i]] # rec_made[MsrFields[i]]

\* the MSR is valid by its schema: the types and ranges of its fields
MsrSchemaValid ==
    /\ rec.msr_version = Version01
    /\ rec.payer_agent_id # rec.payee_agent_id
    /\ \A i \in 1..Len(MsrFields) : ~HasUnsupported(rec[MsrFields[i]])
    /\ ~le_zero(rec.units)
    /\ ~lt_zero(rec.price_usd_micros)
    /\ ~le_zero(rec.timestamp_ms)

\* C12: an MSR of make_msr with one hashed field changed to another value
\* valid by the schema, the signature left alone, is answered by verify_msr
\* under the signer's key with (false, h, "Invalid signature"), h the hash of
\* the changed content and not the hash that was signed
C12_TamperedMsrInvalidSignature ==
    ( /\ VerifiedKind("msr")
      /\ rec.signature_ed25519 = rec_made.signature_ed25519
      /\ MsrFieldChanged
      /\ MsrSchemaValid )
    => /\ rec_out = Verdict(FALSE, hash_bytes(msr_hash_of(rec).out), "Invalid signature")
       /\ rec_out.hash # rec_made.signature_ed25519.signed

C12_Witness ==
    /\ VerifiedKind("msr")
    /\ rec_made.price_usd_micros = int_json(5)
    /\ rec = [rec_made EXCEPT !.price_usd_micros = int_json(6)]
    /\ MsrSchemaValid
    /\ rec_out.error = "Invalid signature"

\* C13: a record as make_msr or make_fc returned it is valid for verify_msr
\* or verify_fc under the signer's public key
C13_ProducedRecordsVerify ==
    (rec_pc = "verified" /\ rec_kind \in {"msr", "fc"} /\ rec = rec_made)
    => rec_out.valid

\* the version field of the record is "0.1"
KnownVersion ==
    CASE rec_kind = "msr" -> rec.msr_version = Version01
      [] rec_kind = "fc" -> rec.fc_version = Version01
      [] rec_kind = "mbs" -> rec.mbs_version = Version01
      [] rec_kind = "ian" -> rec.ian_version = Version01
      [] rec_kind = "amr" -> rec.amr_version = Version01
      [] rec_kind = "dbp" -> rec.dbp_version = "0.1"
      [] OTHER -> TRUE

\* no verifier of the record has reported it valid
ReportedInvalid ==
    CASE rec_kind = "amr" -> ~rec_out.provider_valid
      [] rec_kind = "dbp" -> ~rec_out.verify_dbp /\ ~rec_out.resolve_default.valid
      [] OTHER -> ~rec_out.valid

\* C14: a record whose version is not "0.1" is reported invalid by every
\* verifier of its kind, whatever its signature
C14_UnknownVersionRejected ==
    (rec_pc = "verified" /\ ~KnownVersion) => ReportedInvalid

\* C15: a DBP whose dbp_hash or default_id is not the hash of its content is
\* reported invalid by verify_dbp and by resolve_default
C15_ForeignIdentityRejected ==
    ( /\ VerifiedKind("dbp")
      /\ \/ rec.dbp_hash # hash_bytes(get_dbp_content(rec))
         \/ rec.default_id # hash_bytes(get_dbp_content(rec)) )
    => ReportedInvalid

\* C16: verify_msr, verify_fc, verify_mbs and verify_ian return a result for
\* every record, and no exception leaves them
C16_VerifiersNeverRaise ==
    (rec_pc = "verified" /\ rec_kind \in {"msr", "fc", "mbs", "ian"})
    => ~rec_out.raised

\* the ratio of the sums A and L of an MBS: 999999 for L = 0, else the
\* integer q with q * L <= A * 10000 < (q + 1) * L, the floor of A * 10000 / L
IsRatioOf(q, mbs) ==
    LET A == total_amount(mbs.assets)
        L == total_amount(mbs.liabilities)
    IN  IF L = 0 THEN q = 999999
        ELSE IF L > 0 THEN q * L <= A * 10000 /\ A * 10000 < (q + 1) * L
        ELSE q * L >= A * 10000 /\ A * 10000 > (q + 1) * L

\* the checks of verify_mbs that come before the ratio all pass
MbsWellFormed ==
    /\ rec.mbs_version = Version01
    /\ \A i \in 1..Len(rec.assets) : rec.assets[i].amount >= 0
    /\ \A i \in 1..Len(rec.liabilities) : rec.liabilities[i].amount >= 0
    /\ ~lt_zero(rec.burn_rate_usd_micros_per_s)

\* C20 as it is stated: verify_mbs says valid only of an MBS whose ratio is
\* the ratio of its sums, every MBS with another ratio is rejected with
\* "Invalid solvency ratio", and compute_mbs embeds the ratio of the sums
C20_RatioCheckedFirst ==
    VerifiedKind("mbs")
    => /\ rec_out.valid => IsRatioOf(rec.solvency_ratio, rec)
       /\ ~IsRatioOf(rec.solvency_ratio, rec) => rec_out.error = "Invalid solvency ratio"
       /\ IsRatioOf(rec_made.solvency_ratio, rec_made)

\* C20, amended: the MBS with another ratio is rejected with "Invalid
\* solvency ratio" when its version is "0.1" and no amount and no burn rate
\* is negative; the checks of these come first
C20_RatioCheckedBeforeSignature ==
    VerifiedKind("mbs")
    => /\ rec_out.valid => IsRatioOf(rec.solvency_ratio, rec)
       /\ (MbsWellFormed /\ ~IsRatioOf(rec.solvency_ratio, rec))
              => rec_out = Verdict(FALSE, NoHash, "Invalid solvency ratio")
       /\ IsRatioOf(rec_made.solvency_ratio, rec_made)

\* a well-formed MBS with liabilities, signed by its agent over a ratio
\* that is not the ratio of its sums, was rejected for the ratio
C20_Witness ==
    /\ VerifiedKind("mbs")
    /\ MbsWellFormed
    /\ total_amount(rec.liabilities) > 0
    /\ total_amount(rec.assets) > 0
    /\ rec.solvency_ratio = rec_made.solvency_ratio + 1
    /\ verify(hash_bytes(canonicalize_bytes(mbs_content(rec)).out),
              rec.signature_ed25519, SignerPublicKey)
    /\ rec_out.error = "Invalid solvency ratio"

\* the five fields the commitment is made of
CommitmentOf(fc) ==
    <<fc.issuer_agent_id, fc.counterparty_agent_id, fc.resource_type, fc.units,
      fc.delivery_window>>

\* what an FC holds besides them and besides its two hashes and signature
RestOf(fc) == <<fc.fc_version, fc.unit_type, fc.penalty, fc.collateral>>

\* the full hash of an FC, of which the signature is made
fc_hash_of(fc) == hash_bytes(canonicalize_bytes(fc_content(fc)).out)

\* the codec accepts the FC
FcEncodable(fc) == commitment_bytes(fc).ok /\ canonicalize_bytes(fc_content(fc)).ok

\* the checks of verify_fc that come before the commitment hash all pass
FcWellFormed ==
    /\ rec.fc_version = Version01
    /\ rec.issuer_agent_id # rec.counterparty_agent_id
    /\ ~le_zero(rec.units)
    /\ int_lt(rec.delivery_window.start_ms, rec.delivery_window.end_ms)
    /\ ~le_zero(rec.penalty.penalty_usd_micros)
    /\ commitment_bytes(rec).ok

\* the two levels of identity of the FC made and the FC it was changed to
TwoLevels ==
    (rec_kind = "fc" /\ FcEncodable(rec))
    => /\ (CommitmentOf(rec) = CommitmentOf(rec_made))
           <=> (compute_commitment_hash(rec) = compute_commitment_hash(rec_made))
       /\ (CommitmentOf(rec) = CommitmentOf(rec_made) /\ RestOf(rec) # RestOf(rec_made)
           /\ rec.commitment_hash = rec_made.commitment_hash)
           => fc_hash_of(rec) # fc_hash_of(rec_made)

C21_WitnessSharedCommitment ==
    /\ rec_kind = "fc"
    /\ FcEncodable(rec)
    /\ CommitmentOf(rec) = CommitmentOf(rec_made)
    /\ rec.penalty # rec_made.penalty
    /\ compute_commitment_hash(rec) = compute_commitment_hash(rec_made)
    /\ fc_hash_of(rec) # fc_hash_of(rec_made)

ParticipantsOf(ian) == { ian.participants[i] : i \in 1..Len(ian.participants) }

\* what is asked of one obligation
EndpointsKnown(ian, obl) ==
    obl.from_agent \in ParticipantsOf(ian) /\ obl.to_agent \in ParticipantsOf(ian)

NotToItself(obl) == obl.from_agent # obl.to_agent

AmountPositive(obl) == obl.amount_usd_micros > 0

ObligationSound(ian, obl) ==
    EndpointsKnown(ian, obl) /\ NotToItself(obl) /\ AmountPositive(obl)

NettingHashMatches(ian) ==
    ian.netting_hash =
        compute_netting_hash(ian.epoch_id, ian.included_receipt_hashes, ian.net_obligations)

KernelSignatureValid(ian) ==
    verify(hash_bytes(canonicalize_bytes(ian_content(ian)).out), ian.signature_ed25519,
           SignerPublicKey)

\* the reason of the first failing check in the order: endpoints in
\* participants, from # to, amount > 0 (obligation after obligation),
\* netting hash, kernel signature
ReasonInOrder(ian) ==
    LET obls == ian.net_obligations
        unsound == { i \in 1..Len(obls) : ~ObligationSound(ian, obls[i]) }
        first == CHOOSE i \in unsound : \A j \in unsound : i <= j
    IN  IF unsound # {}
        THEN IF ~EndpointsKnown(ian, obls[first]) THEN "Unknown participant"
             ELSE IF ~NotToItself(obls[first]) THEN "Self-obligation not allowed"
             ELSE "Obligation amount must be positive"
        ELSE IF ~NettingHashMatches(ian) THEN "Invalid netting hash"
        ELSE IF ~KernelSignatureValid(ian) THEN "Invalid kernel signature"
        ELSE "None"

\* verify_ian has returned a verdict on the IAN
IanAnswered == VerifiedKind("ian") /\ ~rec_out.raised

\* valid = true only if every check passes
ValidOnlyIfSound ==
    (IanAnswered /\ rec_out.valid)
    => /\ \A i \in 1..Len(rec.net_obligations) : ObligationSound(rec, rec.net_obligations[i])
       /\ NettingHashMatches(rec)
       /\ KernelSignatureValid(rec)

WithoutConsumerSignature(amr) == [amr EXCEPT !.consumer_signature = NoSignature]

\* C23: cosign_amr changes consumer_signature and nothing else of the AMR
\* (amr_hash, record_id, provider_signature and the content stay), so that
\* verify_amr reports for the provider what it reported before, None for the
\* consumer before, and true for the consumer after when the key that
\* co-signed is the one of consumer_agent_id
C23_CosignOnlyAddsSignature ==
    [][(rec_pc # "cosigned" /\ rec_pc' = "cosigned")
       => /\ WithoutConsumerSignature(rec') = rec
          /\ rec'.consumer_signature # NoSignature
          /\ verify_amr(rec).consumer_valid = "None"
          /\ verify_amr(rec').provider_valid = verify_amr(rec).provider_valid
          /\ (rec = rec_made => verify_amr(rec').provider_valid)
          /\ (rec'.consumer_signature.by = rec.consumer_agent_id
              <=> verify_amr(rec').consumer_valid = "True")]_vars

\* the AMR of make_amr, co-signed by its consumer, was verified: both valid
C23_Witness ==
    /\ VerifiedKind("amr")
    /\ rec # rec_made
    /\ WithoutConsumerSignature(rec) = rec_made
    /\ rec.consumer_signature.by = rec.consumer_agent_id
    /\ rec_out.provider_valid
    /\ rec_out.consumer_valid = "True"


C27_WitnessNetted ==
    /\ VerifiedKind("ian")
    /\ rec = rec_made
    /\ Len(rec.included_receipt_hashes) = 2
    /\ Len(rec.net_obligations) = 1
    /\ rec.net_obligations[1].amount_usd_micros = 8
    /\ rec_out.valid


\* no amount of the balance sheet compute_mbs was given is negative
AmountsNonNegative(mbs) ==
    /\ \A i \in 1..Len(mbs.assets) : mbs.assets[i].amount >= 0
    /\ \A i \in 1..Len(mbs.liabilities) : mbs.liabilities[i].amount >= 0

\* C29: for asset and liability lists without negative amounts the solvency
\* ratio compute_solvency_ratio gives, the one compute_mbs embeds, lies in
\* 0..999999, the ratio of an agent without liabilities being the greatest
C29_SentinelIsMaximum ==
    (rec_kind = "mbs" /\ AmountsNonNegative(rec_made))
    => /\ rec_made.solvency_ratio = compute_solvency_ratio(rec_made.assets, rec_made.liabilities)
       /\ rec_made.solvency_ratio >= 0
       /\ rec_made.solvency_ratio <= MAX_SOLVENCY


\* the runway of an MBS was computed
Rated == rec_pc = "rated"

\* C28: the runway compute_runway_seconds returns is never negative, so that
\* should_auto_default of it is false under the default threshold 0, and
\* true only under a threshold above 0
C28_NoAutoDefaultAtZero ==
    Rated
    => /\ ~rec_out.runway.neg
       /\ ~rec_out.auto[0]
       /\ \A t \in Thresholds : rec_out.auto[t] => t > 0

\* an MBS with more liabilities than assets and a burn rate above 0: its
\* runway is 0.0, no default under the threshold 0, a default under 1
C28_Witness ==
    /\ Rated
    /\ total_amount(rec.assets) < total_amount(rec.liabilities)
    /\ int_value(rec.burn_rate_usd_micros_per_s) > 0
    /\ rec_out.runway = Finite(FALSE, ZeroFloat)
    /\ ~rec_out.auto[0]
    /\ rec_out.auto[1]

\* a runway of 5.0 seconds: a default under the threshold 6 only
C28_WitnessFive ==
    /\ Rated
    /\ rec_out.runway = Finite(FALSE, float_div(5, 1))
    /\ ~rec_out.auto[1]
    /\ rec_out.auto[6]

(***************************************************************************)
(* acr.py : ACRComputer.  acr is the computer: its fields; min_ts is <<>>  *)
(* for float('inf') and <<t>> for the timestamp t.  acr_out is what the    *)
(* last call returned: <<>> for None, <<r>> for the ACR r of compute, of   *)
(* which the count, the window, the volume and the settlement ratio are    *)
(* kept (the velocity, the entropy and the temporal consistency are        *)
(* floats of log2 and sqrt of the same fields).  acr_log counts the calls  *)
(* of add_msr since the last reset and tells whether there was a reset.    *)
(***************************************************************************)
\* the milliseconds of a day
DayMs == 86400000

\* 1.0
OneFloat == float_div(1, 1)

\* the agent the computer rates, and the MSRs it is given
RatedAgent == <<97>>
RatedMsrs ==
    [payer_agent_id : { <<97>> }, payee_agent_id : { <<98>>, <<99>> },
     price_usd_micros : {0, 7}, timestamp_ms : {5, DayMs + 5}]

\* ACRComputer.__init__
NewComputer ==
    [msrs |-> <<>>, total_volume |-> 0, counterparty_counts |-> <<>>,
     daily_volumes |-> <<>>, settled_count |-> 0, min_ts |-> <<>>, max_ts |-> 0]

\* min(self.min_ts, t) and max(self.max_ts, t)
min_ts_of(min_ts, t) == IF min_ts = <<>> \/ t < min_ts[1] THEN <<t>> ELSE min_ts
max_ts_of(max_ts, t) == IF t > max_ts THEN t ELSE max_ts

\* the computer after add_msr(msr, settled)
add_msr(c, msr, settled) ==
    LET counterparty == IF msr.payer_agent_id = RatedAgent
                        THEN msr.payee_agent_id ELSE msr.payer_agent_id
        day == digits_of(msr.timestamp_ms \div DayMs)
    IN  [msrs |-> Append(c.msrs, msr),
         total_volume |-> c.total_volume + msr.price_usd_micros,
         counterparty_counts |->
             dict_set(c.counterparty_counts, counterparty,
                      dict_get(c.counterparty_counts, counterparty) + 1),
         daily_volumes |->
             dict_set(c.daily_volumes, day,
                      dict_get(c.daily_volumes, day) + msr.price_usd_micros),
         settled_count |-> IF settled THEN c.settled_count + 1 ELSE c.settled_count,
         min_ts |-> min_ts_of(c.min_ts, msr.timestamp_ms),
         max_ts |-> max_ts_of(c.max_ts, msr.timestamp_ms)]

\* a variant of reset: the count of settled MSRs is kept
reset_keep_settled(c) ==
    [c EXCEPT !.msrs = <<>>, !.total_volume = 0, !.counterparty_counts = <<>>,
              !.daily_volumes = <<>>, !.min_ts = <<>>, !.max_ts = 0]

\* the computer after reset()
reset(c) ==
    [c EXCEPT !.msrs = <<>>, !.total_volume = 0, !.counterparty_counts = <<>>,
              !.daily_volumes = <<>>, !.settled_count = 0, !.min_ts = <<>>,
              !.max_ts = 0]

\* _empty_acr: ACRDimensions() has volume 0 and settlement ratio 1.0
empty_acr(now) ==
    [msr_count |-> 0, window_start_ms |-> now, window_end_ms |-> now,
     volume_usd_micros |-> 0, settlement_ratio |-> OneFloat]

\* compute(raw_data_hash) at the time now
compute(c, now) ==
    LET count == Len(c.msrs)
    IN  IF count = 0 THEN empty_acr(now)
        ELSE [msr_count |-> count,
              window_start_ms |-> c.min_ts[1],
              window_end_ms |-> c.max_ts,
              volume_usd_micros |-> c.total_volume,
              settlement_ratio |-> float_div(c.settled_count, count)]

AcrInit ==
    /\ acr = NewComputer
    /\ acr_log = [added |-> 0, reset |-> FALSE]
    /\ acr_out = <<>>

AddMsr ==
    /\ acr_log.added < MaxMsrs
    /\ \E msr \in RatedMsrs, settled \in BOOLEAN : acr' = add_msr(acr, msr, settled)
    /\ acr_log' = [acr_log EXCEPT !.added = @ + 1]
    /\ acr_out' = <<>>
    /\ UNCHANGED <<net_vars, in_vars, dist_vars, dbp_vars, canon_vars, rec_vars, hook_vars, life_vars>>

Reset ==
    /\ acr' = reset(acr)
    /\ acr_log' = [added |-> 0, reset |-> TRUE]
    /\ acr_out' = <<>>
    /\ UNCHANGED <<net_vars, in_vars, dist_vars, dbp_vars, canon_vars, rec_vars, hook_vars, life_vars>>

Compute ==
    /\ acr_out' = <<compute(acr, DayMs)>>
    /\ UNCHANGED <<acr, acr_log>>
    /\ UNCHANGED <<net_vars, in_vars, dist_vars, dbp_vars, canon_vars, rec_vars, hook_vars, life_vars>>

NextAcr == AddMsr \/ Reset \/ Compute

\* 0.0 <= f <= 1.0 of a float
in_unit_interval(f) == f = ZeroFloat \/ f = OneFloat \/ (f.lead >= 16 /\ f.e < OneFloat.e)

\* C24: after add_msr and reset calls in any order settled_count is at least
\* 0 and at most the number of MSRs added since the last reset, the
\* settlement ratio compute returns lies in [0, 1], and with no MSR added
\* since the last reset compute returns msr_count 0 and volume 0
C24_SettledWithinAdded ==
    /\ 0 <= acr.settled_count
    /\ acr.settled_count <= acr_log.added
    /\ Len(acr.msrs) = acr_log.added
    /\ acr_out # <<>>
       => /\ in_unit_interval(acr_out[1].settlement_ratio)
          /\ acr_log.added = 0
             => (acr_out[1].msr_count = 0 /\ acr_out[1].volume_usd_micros = 0)

\* after a reset two MSRs were added, one of them settled, and compute
\* returned the ratio 0.5
C24_Witness ==
    /\ acr_log = [added |-> 2, reset |-> TRUE]
    /\ acr.settled_count = 1
    /\ acr_out # <<>>
    /\ acr_out[1].settlement_ratio = float_div(1, 2)
    /\ acr_out[1].settlement_ratio # OneFloat

\* compute after a reset that followed settled MSRs returned the empty ACR
C24_WitnessEmpty ==
    /\ acr_log = [added |-> 0, reset |-> TRUE]
    /\ acr_out = <<empty_acr(DayMs)>>

(***************************************************************************)
(* primordia_runtime_hook : PrimordiaHook.  hook holds the mode, the       *)
(* receipts and the total cost of the hook; a cost is a float of a whole   *)
(* number of dollars, which floats add exactly.  hook_out is what flush    *)
(* returned when flush was the last call, <<>> otherwise; a key the result *)
(* may lack, 'ian' or 'error', is <<>> when absent.  hook_log lists the    *)
(* receipts the calls have returned since the last flush.                  *)
(***************************************************************************)
Modes == {"shadow", "paid"}
Costs == {0, 1, 2}

\* PrimordiaHook.__init__
NewHook(mode) == [mode |-> mode, receipts |-> <<>>, total_cost_usd |-> 0]

\* _create_msr: the MSR and the hash of its JSON
create_msr(h, resource_type, metadata, cost_usd, timestamp) ==
    LET msr == [agent_id |-> RatedAgent, resource_type |-> resource_type,
                timestamp |-> timestamp, metadata |-> metadata,
                cost_usd |-> cost_usd, mode |-> h.mode]
    IN  [msr |-> msr, hash |-> [sha256 |-> msr]]

\* the hook after on_llm_call and after on_tool_call
on_llm_call(h, model, input_tokens, output_tokens, cost_usd, timestamp) ==
    LET metadata == [name |-> model, input_tokens |-> input_tokens,
                     output_tokens |-> output_tokens,
                     total_tokens |-> input_tokens + output_tokens, duration_ms |-> 0]
        msr == create_msr(h, "llm_inference", metadata, cost_usd, timestamp)
    IN  [h EXCEPT !.receipts = Append(@, msr), !.total_cost_usd = @ + cost_usd]

on_tool_call(h, tool, duration_ms, cost_usd, timestamp) ==
    LET metadata == [name |-> tool, input_tokens |-> 0, output_tokens |-> 0,
                     total_tokens |-> 0, duration_ms |-> duration_ms]
        msr == create_msr(h, "tool_execution", metadata, cost_usd, timestamp)
    IN  [h EXCEPT !.receipts = Append(@, msr), !.total_cost_usd = @ + cost_usd]

\* a variant of flush: the receipts stay when the submission failed
flush_keep_on_error(h, kernel) ==
    LET submits == h.mode = "paid" /\ h.receipts # <<>>
        result == [receipts |-> h.receipts,
                   total_cost_usd |-> h.total_cost_usd,
                   receipt_count |-> Len(h.receipts),
                   ian |-> IF submits /\ kernel = "answers" THEN <<"ian">> ELSE <<>>,
                   error |-> IF submits /\ kernel = "raises" THEN <<"error">> ELSE <<>>]
    IN  [hook |-> IF submits /\ kernel = "raises" THEN h
                  ELSE [h EXCEPT !.receipts = <<>>, !.total_cost_usd = 0],
         result |-> result]

\* flush(): the hook after it and the result; _submit_to_kernel returns the
\* answer of the kernel or raises
flush(h, kernel) ==
    LET submits == h.mode = "paid" /\ h.receipts # <<>>
        result == [receipts |-> h.receipts,
                   total_cost_usd |-> h.total_cost_usd,
                   receipt_count |-> Len(h.receipts),
                   ian |-> IF submits /\ kernel = "answers" THEN <<"ian">> ELSE <<>>,
                   error |-> IF submits /\ kernel = "raises" THEN <<"error">> ELSE <<>>]
    IN  [hook |-> [h EXCEPT !.receipts = <<>>, !.total_cost_usd = 0],
         result |-> result]

\* a hook of the default mode
HookInit ==
    /\ hook = NewHook("shadow")
    /\ hook_log = <<>>
    /\ hook_out = <<>>

\* PrimordiaHook(agent_id, private_key, mode), before any call is recorded
Construct ==
    /\ hook_log = <<>> /\ hook_out = <<>> /\ hook.receipts = <<>>
    /\ \E mode \in Modes : hook' = NewHook(mode)
    /\ UNCHANGED <<hook_log, hook_out>>
    /\ UNCHANGED <<net_vars, in_vars, dist_vars, dbp_vars, canon_vars, rec_vars, acr_vars, life_vars>>

OnLlmCall ==
    /\ Len(hook_log) < MaxCalls
    /\ \E cost_usd \in Costs : hook' = on_llm_call(hook, "m", 3, 4, cost_usd, 1)
    /\ hook_log' = Append(hook_log, hook'.receipts[Len(hook'.receipts)])
    /\ hook_out' = <<>>
    /\ UNCHANGED <<net_vars, in_vars, dist_vars, dbp_vars, canon_vars, rec_vars, acr_vars, life_vars>>

OnToolCall ==
    /\ Len(hook_log) < MaxCalls
    /\ \E cost_usd \in Costs : hook' = on_tool_call(hook, "t", 5, cost_usd, 1)
    /\ hook_log' = Append(hook_log, hook'.receipts[Len(hook'.receipts)])
    /\ hook_out' = <<>>
    /\ UNCHANGED <<net_vars, in_vars, dist_vars, dbp_vars, canon_vars, rec_vars, acr_vars, life_vars>>

Flush ==
    /\ \E kernel \in {"answers", "raises"} :
          /\ hook' = flush(hook, kernel).hook
          /\ hook_out' = <<flush(hook, kernel).result>>
    /\ hook_log' = <<>>
    /\ UNCHANGED <<net_vars, in_vars, dist_vars, dbp_vars, canon_vars, rec_vars, acr_vars, life_vars>>

NextHook == Construct \/ OnLlmCall \/ OnToolCall \/ Flush

\* C26: flush returns the receipts recorded since the flush before, their
\* number and their total cost, and leaves the hook with no receipt and a
\* total cost of 0.0; in shadow mode the result has no 'ian'; in paid mode,
\* with receipts, it has 'ian' when the kernel answered and 'error' when the
\* submission raised, the receipts being cleared all the same
C26_FlushReturnsAndClears ==
    [][hook_out' # <<>>
       => /\ hook_out'[1].receipts = hook_log
          /\ hook_out'[1].receipt_count = Len(hook_log)
          /\ hook_out'[1].total_cost_usd
                = SumSeq([i \in 1..Len(hook_log) |-> hook_log[i].msr.cost_usd])
          /\ hook'.receipts = <<>>
          /\ hook'.total_cost_usd = 0
          /\ hook'.mode = hook.mode
          /\ hook.mode = "shadow" => hook_out'[1].ian = <<>> /\ hook_out'[1].error = <<>>
          /\ (hook.mode = "paid" /\ hook_log # <<>>)
             => (hook_out'[1].ian = <<>>) # (hook_out'[1].error = <<>>)
          /\ hook_log = <<>> => hook_out'[1].ian = <<>> /\ hook_out'[1].error = <<>>]_vars

\* a flush in paid mode of two receipts whose submission failed: the result
\* has the two receipts and 'error', and the hook has no receipt
C26_Witness ==
    /\ hook_out # <<>>
    /\ hook.mode = "paid"
    /\ hook_out[1].receipt_count = 2
    /\ hook_out[1].total_cost_usd = 3
    /\ hook_out[1].error # <<>>
    /\ hook_out[1].ian = <<>>
    /\ hook.receipts = <<>>

(***************************************************************************)
(* The states of a DBP (spec.md, 4.11): PROPOSED, SIGNED, RESOLVED.  The   *)
(* SDK keeps no state of a DBP; the states and their transitions are those *)
(* of the specification, over the DBP of make_dbp and the answers of       *)
(* resolve_default.                                                        *)
(***************************************************************************)
\* the creditors and the assets of the proposed DBPs
LifeCreditors ==
    {<<>>} \cup { <<c>> : c \in Creditor }
           \cup { << [agent_id |-> <<120>>, amount_micros |-> 15, priority |-> 1],
                     [agent_id |-> <<121>>, amount_micros |-> 7, priority |-> 2] >> }

LifeAssets == {<<>>} \cup { <<a>> : a \in Asset }

\* the key of no arbiter: a DBP is proposed with the content and the hash
\* make_dbp gives it, its signature not yet the arbiter's
NoPrivateKey == "sk_none"

\* the keys an arbiter signature is made with, and resolve_default is given
SigningKeys == {ArbiterPrivateKey, OtherPrivateKey}

ResolvingKeys == {ArbiterPublicKey, OtherPublicKey}

LifeInit ==
    /\ life_state = "NONE"
    /\ life_dbp = NoDbp
    /\ life_out = <<>>
    /\ life_failed = FALSE

\* a DBP is proposed
Propose ==
    /\ life_state = "NONE"
    /\ \E now \in Clock, cs \in LifeCreditors, as \in LifeAssets, method \in Methods :
          life_dbp' = make_dbp(now, cs, as, method, ArbiterPublicKey, NoPrivateKey)
    /\ life_state' = "PROPOSED"
    /\ UNCHANGED <<life_out, life_failed>>
    /\ UNCHANGED <<net_vars, in_vars, dist_vars, dbp_vars, canon_vars, rec_vars, acr_vars, hook_vars>>

\* the arbiter sign step: a signature of the DBP's hash is attached, the
\* first one or, after a failed resolve, a new one
ArbiterSigns ==
    /\ life_state \in {"PROPOSED", "SIGNED"}
    /\ \E key \in SigningKeys :
          life_dbp' = [life_dbp EXCEPT !.signature_ed25519 = sign(life_dbp.dbp_hash, key)]
    /\ life_state' = "SIGNED"
    /\ life_out' = <<>>
    /\ UNCHANGED life_failed
    /\ UNCHANGED <<net_vars, in_vars, dist_vars, dbp_vars, canon_vars, rec_vars, acr_vars, hook_vars>>

\* resolve_default(dbp, arbiter_public_key) of a signed DBP
ResolveDefault ==
    /\ life_state = "SIGNED"
    /\ \E arbiter_public_key \in ResolvingKeys :
          LET out == resolve_default(life_dbp, arbiter_public_key)
          IN  /\ life_out' = <<out>>
              /\ life_state' = IF out.valid THEN "RESOLVED" ELSE "SIGNED"
              /\ life_failed' = (life_failed \/ ~out.valid)
    /\ UNCHANGED life_dbp
    /\ UNCHANGED <<net_vars, in_vars, dist_vars, dbp_vars, canon_vars, rec_vars, acr_vars, hook_vars>>

NextLife == Propose \/ ArbiterSigns \/ ResolveDefault

\* the arbiter's signature is not yet attached
Unsigned(d) == d.signature_ed25519 = sign(d.dbp_hash, NoPrivateKey)

\* C25: a DBP leaves PROPOSED only to SIGNED, with a signature attached and
\* nothing else changed; it leaves SIGNED only to RESOLVED, on an answer of
\* resolve_default with valid = true; RESOLVED is left no more; an answer
\* with valid = false has no distributions and recovery_rate_bps 0, and
\* leaves the DBP as it was, in SIGNED
C25_Lifecycle ==
    [][/\ (life_state = "PROPOSED" /\ life_state' # "PROPOSED")
          => /\ life_state' = "SIGNED"
             /\ Unsigned(life_dbp) /\ ~Unsigned(life_dbp')
             /\ get_dbp_content(life_dbp') = get_dbp_content(life_dbp)
             /\ life_dbp'.dbp_hash = life_dbp.dbp_hash
       /\ (life_state = "SIGNED" /\ life_state' # "SIGNED")
          => /\ life_state' = "RESOLVED"
             /\ life_out' # <<>> /\ life_out'[1].valid
             /\ life_out'[1].distributions = life_dbp.liquidation_plan.distributions
             /\ life_dbp' = life_dbp
       /\ life_state = "RESOLVED" => UNCHANGED life_vars
       /\ (life_state = "SIGNED" /\ life_out' # <<>> /\ ~life_out'[1].valid)
          => /\ life_state' = "SIGNED"
             /\ life_dbp' = life_dbp
             /\ life_out'[1].distributions = <<>>
             /\ life_out'[1].recovery_rate_bps = 0]_vars

\* a DBP of two creditors is RESOLVED after a resolve_default of it failed
C25_Witness ==
    /\ life_state = "RESOLVED"
    /\ life_failed
    /\ life_out[1].valid
    /\ Len(life_out[1].distributions) = 2

\* a signed DBP a resolve_default of which has just failed
C25_WitnessFailed ==
    /\ life_state = "SIGNED"
    /\ life_out # <<>>
    /\ ~life_out[1].valid
    /\ Len(life_dbp.liquidation_plan.distributions) = 2

Init ==
    NetInit /\ DbpInit /\ CanonInit /\ RecInit /\ AcrInit /\ HookInit /\ LifeInit

NextDist == AddCreditor \/ Distribute

NextDbp == AddCreditor \/ AddAsset \/ MakeDbp \/ ArbiterSignsPlan \/ Resolve

SpecNet == Init /\ [][NextNet]_vars

SpecDist == Init /\ [][NextDist]_vars

SpecDbp == Init /\ [][NextDbp]_vars

SpecCanon == Init /\ [][NextCanon]_vars

SpecRec == Init /\ [][NextRec]_vars

SpecAcr == Init /\ [][NextAcr]_vars

SpecHook == Init /\ [][NextHook]_vars

SpecLife == Init /\ [][NextLife]_vars

====
